---- MODULE Spec2Model ----
(***************************************************************************)
(* Dispatch planning and dynamic re-optimization engine.                   *)
(*                                                                         *)
(*   DispatchPlanner   agents/dispatch_planner.py                          *)
(*   DynamicOptimizer  agents/dynamic_optimizer.py                         *)
(*                                                                         *)
(* Specifications over one set of variables:                               *)
(*   SpecAssign    one run of _assign_products_to_vehicles, one loop       *)
(*                 iteration per step, inputs drawn by InitAssign          *)
(*   SpecRoute     one run of _optimize_single_route, one loop iteration   *)
(*                 per step, inputs drawn by InitRoute                     *)
(*   SpecPlan      one call of optimize_routes, one delivery date per      *)
(*                 step, inputs drawn by InitPlan                          *)
(*   SpecCalls     single calls of the cost and score computations         *)
(*   Spec          the DynamicOptimizer controller: callers, event queue   *)
(*                 and the background loop                                 *)
(*   SpecTrigger   the same controller over a longer time horizon with a   *)
(*                 smaller event alphabet                                  *)
(*   SpecLive      the controller with a fairly scheduled worker           *)
(*   SpecCallbacks the controller with completion callbacks                *)
(*   SpecSnapshot  the controller with a holder of get_current_state's     *)
(*                 result                                                  *)
(*   SpecThreads   start, stop and the worker threads statement by         *)
(*                 statement, callers concurrent                           *)
(*   SpecControl   the same with a single caller                           *)
(*   SpecFleet     the fair controller with a fleet that is loaded in      *)
(*                 parts and drivers that go off duty                      *)
(*   SpecLookup    the controller fed events that name unknown ids         *)
(*   SpecDrain     the fair controller fed an event its handler cannot     *)
(*                 read                                                    *)
(*   SpecPending   SpecLive with a caller of reset_state                   *)
(***************************************************************************)
EXTENDS Integers, Sequences, FiniteSets, TLC

\* ---------------------------------------------------------------- bounds
MaxItems      == 3    \* products handed to one assigner run
MaxVehicles   == 2    \* vehicles in the registry of an assigner run
MaxWeight     == 2    \* product Weight ranges over 1..MaxWeight
MaxDim        == 2    \* product Length ranges over 1..MaxDim
MaxCapWeight  == 3    \* capacity_weight ranges over 1..MaxCapWeight
MaxCapVolume  == 4    \* capacity_volume ranges over 2..MaxCapVolume
MaxStops      == 3    \* products handed to one route-builder run
MaxCoord      == 2    \* delivery coordinates range over 0..MaxCoord
MaxDrivers    == 2    \* drivers in the registry of a route-builder run
MaxQueue      == 2    \* events waiting in the queue at one time
MaxEvents     == 3    \* add_event calls in one behaviour of Spec
SpecProducts  == 2    \* product ids 1..SpecProducts appear in the events of Spec
SpecMaxTime   == 60   \* the clock of Spec stops here
NumProducts   == 5    \* product ids 1..NumProducts appear in the events of SpecTrigger
TriggerMaxTime == 390 \* the clock of SpecTrigger stops here
MaxTriggerEvents == 6 \* add_event calls in one behaviour of SpecTrigger
MaxCallbacks  == 3    \* callbacks registered in one behaviour of SpecCallbacks
MaxLiveEvents == 2    \* add_event calls in one behaviour of SpecLive and SpecCallbacks
LiveMaxTime   == 120  \* the clock of SpecLive and SpecCallbacks stops here
PlanProducts  == 2    \* products handed to one optimize_routes call of SpecPlan
SnapshotProducts == 2 \* product ids 1..SnapshotProducts appear in the events of SpecSnapshot
MaxSnapshotEvents == 3 \* add_event calls in one behaviour of SpecSnapshot
SnapshotMaxTime == 60 \* the clock of SpecSnapshot stops here
NumCallers    == 2    \* caller threads of SpecThreads
MaxThreads    == 4    \* Thread objects started in one behaviour
MaxFleetEvents == 3   \* add_event calls in one behaviour of SpecFleet
MaxFleetCallbacks == 1 \* callbacks registered in one behaviour of SpecFleet
MaxLookupEvents == 2  \* add_event calls in one behaviour of SpecLookup
MaxDrainEvents == 3   \* add_event calls in one behaviour of SpecDrain

\* ------------------------------------------------------ program constants
OptimizationInterval == 300   \* self.optimization_interval
MinAvailable         == 5     \* the threshold of _should_optimize
TickSleep            == 30    \* time.sleep(30)
ErrorSleep           == 60    \* time.sleep(60)

\* ------------------------------------------------------------- sentinels
None == "None"
NoTime == 0 - 1

\* no call of a stateless function is set up
NoCall == [fn |-> "none"]

\* no get_current_state call has returned yet
NoSnapshot == [taken |-> FALSE, shared |-> {}, view |-> <<>>]

\* ------------------------------------------------------------- variables
VARIABLES
  \* --- DispatchPlanner registries (self.vehicles, self.drivers)
  vehicles,              \* sequence of vehicle records, registration order
  drivers,               \* sequence of driver records, registration order
  \* --- one run of _assign_products_to_vehicles
  a_pc,                  \* "idle" | "loop" | "done"
  a_products,            \* the products argument of the latest call
  a_idx,                 \* number of products already consumed by the for loop
  vehicle_assignments,   \* vehicle id -> sequence of products
  vehicle_capacities,    \* vehicle id -> [weight, volume] running totals
  fallback_items,        \* history: Product ids placed by the branch at line 170
  warnings,              \* warnings / metrics emitted by the run
  \* --- one run of _optimize_single_route
  r_pc,                  \* "idle" | "loop" | "done" | "raised"
  r_vehicle_id,          \* the vehicle_id argument, 0 while no run is set up
  r_products,            \* the products argument
  unvisited,             \* products.copy(), shrinking
  route,                 \* the stops appended so far
  current_location,      \* (x, y) of the last stop, the depot at first
  total_distance,        \* accumulated distance, in thousandths of a native unit
  r_driver,              \* the driver record chosen at line 192, None before
  r_result,              \* the returned route dictionary, None before
  \* --- DynamicOptimizer
  is_running,            \* self.is_running
  pc,                    \* where the worker thread stands; "none" while no thread exists
  event_queue,           \* self.event_queue, oldest event first
  current_state,         \* self.current_state: product id -> record
  state_keys,            \* the keys of self.current_state in insertion order
  last_optimization,     \* self.last_optimization, NoTime while it is None
  now,                   \* the wall clock, in seconds
  last_fire,             \* history: when _should_optimize last returned True
  cycle_outcome,         \* history: how the last _perform_optimization call ended:
                         \* "skipped" | "success" | "failed" (the 'failed' row is
                         \* written) | "raised" (the call itself raised)
  n_events,              \* history: number of add_event calls made so far
  optimization_callbacks,\* self.optimization_callbacks, registration order
  notified,              \* history: callbacks invoked by the last _perform_optimization
  \* --- DynamicOptimizer, its threads one statement at a time
  callers,               \* caller id -> [at, target]: the statement a caller thread is
                         \* about to run and the Thread object its join waits for
  threads,               \* the Thread objects started so far: where each one stands
  optimization_thread,   \* self.optimization_thread: an index of threads, 0 for None
  \* --- the dictionary a get_current_state call returned
  snapshot,              \* [taken, shared, view]: view is the dictionary as its holder
                         \* sees it; shared holds the keys whose record is the very
                         \* object that self.current_state holds under that key
  \* --- one call of optimize_routes
  o_pc,                  \* "idle" | "check_vehicles" | "check_drivers" | "plan" | "done" | "raised"
  o_error,               \* the exception the call raised, "none" while it has raised none
  products_with_locations, \* the products argument
  optimized_routes,      \* the list of routes built
  o_assign_calls,        \* history: calls of _assign_products_to_vehicles made
  o_route_calls,         \* history: calls of _optimize_single_route made
  \* --- the persistence layer
  logged_movement,       \* history: the last event the drain in progress took and whether
                         \* _log_movement_event wrote its row, <<event, written>>; not
                         \* written when the handler or the log raised; <<>> outside a drain
  \* --- one call of a function that touches no object state
  call,                  \* [fn, args, result]; fn is "none" while no call is set up
  \* --- the _perform_optimization call of the tick in progress
  dispatch_routes        \* history: the routes the call merged into current_state; <<>>
                         \* when it merged none and once the tick has gone past it

planVars == <<a_pc, a_products, a_idx, vehicle_assignments, vehicle_capacities,
              fallback_items, warnings>>
fleetVars == <<vehicles, drivers>>
routeVars == <<r_pc, r_vehicle_id, r_products, unvisited, route, current_location,
               total_distance, r_driver, r_result>>
ctlVars == <<is_running, pc, event_queue, current_state, state_keys, last_optimization,
             now, last_fire, cycle_outcome, n_events>>
cbVars == <<optimization_callbacks, notified>>
thrVars == <<callers, threads, optimization_thread>>
optVars == <<o_pc, o_error, products_with_locations, optimized_routes, o_assign_calls,
             o_route_calls>>
auxRest == <<cbVars, thrVars, snapshot, optVars, call>>
auxVars == <<auxRest, logged_movement, dispatch_routes>>
ctlRest == <<pc, event_queue, current_state, state_keys, last_optimization, now,
             last_fire, cycle_outcome, n_events>>
vars == <<fleetVars, planVars, routeVars, ctlVars, auxVars>>

\* ======================================================================
\* DispatchPlanner: capacity assigner
\* ======================================================================

\* product['Length'] * product['Width'] * product['Height']
Volume(product) == product.Length * product.Width * product.Height

\* positions of the registry, as the for loop at line 152 walks it
VehicleIndexes(vs) == 1..Len(vs)

VehicleIds(vs) == {vs[i].id : i \in VehicleIndexes(vs)}

\* mutation of Fits: the volume half of the check at line 161 is lost
Fits_WeightOnly(vehicle, caps, product) ==
  /\ vehicle.available
  /\ caps[vehicle.id].weight + product.Weight <= vehicle.capacity_weight

\* the fit check of lines 153-161 for one vehicle
Fits(vehicle, caps, product) ==
  /\ vehicle.available
  /\ caps[vehicle.id].weight + product.Weight <= vehicle.capacity_weight
  /\ caps[vehicle.id].volume + Volume(product) <= vehicle.capacity_volume

\* mutation of FirstFit: the break at line 167 is lost, the last fitting vehicle wins
FirstFit_Last(vs, caps, product) ==
  IF \E i \in VehicleIndexes(vs) : Fits(vs[i], caps, product)
  THEN CHOOSE i \in VehicleIndexes(vs) :
         /\ Fits(vs[i], caps, product)
         /\ \A j \in (i+1)..Len(vs) : ~Fits(vs[j], caps, product)
  ELSE 0

\* the inner for loop with its break: first registry position that fits, 0 if none
FirstFit(vs, caps, product) ==
  IF \E i \in VehicleIndexes(vs) : Fits(vs[i], caps, product)
  THEN CHOOSE i \in VehicleIndexes(vs) :
         /\ Fits(vs[i], caps, product)
         /\ \A j \in 1..(i-1) : ~Fits(vs[j], caps, product)
  ELSE 0

\* mutation of BestVehicle: the last maximal element instead of the first
BestVehicle_Last(vs) ==
  CHOOSE i \in VehicleIndexes(vs) :
    /\ \A j \in VehicleIndexes(vs) : vs[j].capacity_weight <= vs[i].capacity_weight
    /\ \A j \in (i+1)..Len(vs) : vs[j].capacity_weight < vs[i].capacity_weight

\* max(self.vehicles, key=capacity_weight): the first maximal element
BestVehicle(vs) ==
  CHOOSE i \in VehicleIndexes(vs) :
    /\ \A j \in VehicleIndexes(vs) : vs[j].capacity_weight <= vs[i].capacity_weight
    /\ \A j \in 1..(i-1) : vs[j].capacity_weight < vs[i].capacity_weight

\* the two dictionaries built at lines 145-146
EmptyAssignments(vs) == [id \in VehicleIds(vs) |-> <<>>]
EmptyCapacities(vs) == [id \in VehicleIds(vs) |-> [weight |-> 0, volume |-> 0]]

\* mutation of AssignStep: a product that fits nowhere is dropped
AssignStep_DropOnFallback(vs, st, product) ==
  LET i == FirstFit(vs, st.caps, product) IN
  IF i # 0
  THEN [assign |-> [st.assign EXCEPT ![vs[i].id] = Append(@, product)],
        caps   |-> [st.caps EXCEPT
                      ![vs[i].id].weight = @ + product.Weight,
                      ![vs[i].id].volume = @ + Volume(product)],
        fallback |-> FALSE]
  ELSE [assign |-> st.assign, caps |-> st.caps, fallback |-> TRUE]

\* one iteration of the for loop at line 148 on the pair of dictionaries
AssignStep(vs, st, product) ==
  LET i == FirstFit(vs, st.caps, product) IN
  IF i # 0
  THEN [assign |-> [st.assign EXCEPT ![vs[i].id] = Append(@, product)],
        caps   |-> [st.caps EXCEPT
                      ![vs[i].id].weight = @ + product.Weight,
                      ![vs[i].id].volume = @ + Volume(product)],
        fallback |-> FALSE]
  ELSE [assign |-> [st.assign EXCEPT ![vs[BestVehicle(vs)].id] = Append(@, product)],
        caps   |-> st.caps,
        fallback |-> TRUE]


\* ======================================================================
\* DispatchPlanner: route builder
\* ======================================================================

\* the warehouse, (0, 0) at lines 184 and 218
Depot == <<0, 0>>

\* floats are carried as integers counting thousandths of a unit
Thousand == 10 * 10 * 10

RECURSIVE SqrtSearch(_, _, _)
SqrtSearch(n, lo, hi) ==
  IF lo >= hi THEN lo
  ELSE LET mid == (lo + hi + 1) \div 2 IN
       IF mid * mid <= n THEN SqrtSearch(n, mid, hi) ELSE SqrtSearch(n, lo, mid - 1)

\* np.sqrt of a non-negative integer, in thousandths, truncated
SqrtMilli(n) == SqrtSearch(n * Thousand * Thousand, 0, (n + 1) * Thousand)

\* calculate_distance: Euclidean distance of two points, in thousandths
calculate_distance(point1, point2) ==
  SqrtMilli((point1[1] - point2[1]) * (point1[1] - point2[1])
            + (point1[2] - point2[2]) * (point1[2] - point2[2]))

\* round(x, 2) on a value in thousandths: to the nearest hundredth, ties to even
Round2(m) ==
  LET q == m \div 10
      r == m % 10
  IN 10 * (IF r > 5 \/ (r = 5 /\ q % 2 = 1) THEN q + 1 ELSE q)

\* mutation of NearestIndex: among equally close elements the last one is taken
NearestIndex_LastMinimal(cur, seq) ==
  CHOOSE i \in 1..Len(seq) :
    /\ \A j \in 1..Len(seq) :
         calculate_distance(cur, seq[i].delivery_location)
           <= calculate_distance(cur, seq[j].delivery_location)
    /\ \A j \in (i+1)..Len(seq) :
         calculate_distance(cur, seq[j].delivery_location)
           > calculate_distance(cur, seq[i].delivery_location)

\* min(unvisited, key=distance from cur): position of the first minimal element
NearestIndex(cur, seq) ==
  CHOOSE i \in 1..Len(seq) :
    /\ \A j \in 1..Len(seq) :
         calculate_distance(cur, seq[i].delivery_location)
           <= calculate_distance(cur, seq[j].delivery_location)
    /\ \A j \in 1..(i-1) :
         calculate_distance(cur, seq[j].delivery_location)
           > calculate_distance(cur, seq[i].delivery_location)

\* list.remove(x): drop the first element equal to x
RemoveFirst(seq, x) ==
  LET k == CHOOSE i \in 1..Len(seq) : seq[i] = x /\ \A j \in 1..(i-1) : seq[j] # x
  IN [i \in 1..(Len(seq) - 1) |-> IF i < k THEN seq[i] ELSE seq[i + 1]]

\* mutation of ReturnLeg: the trip back to the warehouse is not counted
ReturnLeg_Forgotten(loc) == 0

\* lines 218: the return trip from the last stop to the warehouse
ReturnLeg(loc) == calculate_distance(loc, Depot)

\* mutation of AvailableDrivers: the available flag is not looked at
AvailableDrivers_Everyone(ds) == 1..Len(ds)

\* [d for d in self.drivers if d['available']]
AvailableDrivers(ds) == {i \in 1..Len(ds) : ds[i].available}

\* ======================================================================
\* DispatchPlanner: a whole optimize_routes call
\* ======================================================================

\* the weight above which _calculate_priority_score adds half a point
HeavyWeight == 200

\* mutation of calculate_priority_score: the weight test of line 91 is >=
calculate_priority_score_HeavyInclusive(product) ==
  2 * (CASE product.Priority = "High" -> 3
         [] product.Priority = "Medium" -> 2
         [] product.Priority = "Low" -> 1
         [] OTHER -> 2)
  + (IF product.Fragile THEN 2 ELSE 0)
  + (IF product.Weight >= HeavyWeight THEN 1 ELSE 0)

\* _calculate_priority_score, counted in half points
calculate_priority_score(product) ==
  2 * (CASE product.Priority = "High" -> 3
         [] product.Priority = "Medium" -> 2
         [] product.Priority = "Low" -> 1
         [] OTHER -> 2)
  + (IF product.Fragile THEN 2 ELSE 0)
  + (IF product.Weight > HeavyWeight THEN 1 ELSE 0)

\* one product of assign_delivery_locations: the copy with the drawn location and
\* window and the derived score; draw = [day, hour, location]
WithLocation(product, draw) ==
  [Product |-> product.Product, Weight |-> product.Weight, Length |-> product.Length,
   Width |-> product.Width, Height |-> product.Height, Priority |-> product.Priority,
   Fragile |-> product.Fragile,
   delivery_location |-> draw.location,
   delivery_day |-> draw.day,
   delivery_window_start |-> draw.day * 24 + draw.hour,
   priority_score |-> calculate_priority_score(product)]

\* assign_delivery_locations: draws[i] is what the random source gave product i
assign_delivery_locations(products, draws) ==
  [i \in 1..Len(products) |-> WithLocation(products[i], draws[i])]

\* _group_by_delivery_date: the dates in order of first appearance
RECURSIVE GroupDates(_)
GroupDates(products) ==
  IF products = <<>> THEN <<>>
  ELSE LET front == GroupDates(SubSeq(products, 1, Len(products) - 1))
           day == products[Len(products)].delivery_day
       IN IF \E k \in 1..Len(front) : front[k] = day THEN front ELSE Append(front, day)

\* _group_by_delivery_date: the products of one date, in input order
GroupOf(products, day) == SelectSeq(products, LAMBDA q : q.delivery_day = day)

\* mutation of KeyGreater: among equal scores the earlier window goes first
KeyGreater_EarlierFirst(a, b) ==
  \/ a.priority_score > b.priority_score
  \/ /\ a.priority_score = b.priority_score
     /\ a.delivery_window_start < b.delivery_window_start

\* the sort key of line 118 compared as Python compares tuples
KeyGreater(a, b) ==
  \/ a.priority_score > b.priority_score
  \/ /\ a.priority_score = b.priority_score
     /\ a.delivery_window_start > b.delivery_window_start

\* put x into a list sorted in descending key order, behind the elements of equal key
InsertDescending(sorted, x) ==
  LET before == {k \in 1..Len(sorted) : ~KeyGreater(x, sorted[k])}
      n == Cardinality(before)
  IN SubSeq(sorted, 1, n) \o <<x>> \o SubSeq(sorted, n + 1, Len(sorted))

\* sorted(products, key=(priority_score, delivery_window_start), reverse=True): stable
RECURSIVE SortedProducts(_)
SortedProducts(products) ==
  IF products = <<>> THEN <<>>
  ELSE InsertDescending(SortedProducts(SubSeq(products, 1, Len(products) - 1)),
                        products[Len(products)])

\* _assign_products_to_vehicles run to completion from the state st
RECURSIVE AssignAll(_, _, _)
AssignAll(vs, st, products) ==
  IF products = <<>> THEN st
  ELSE AssignAll(vs, AssignStep(vs, st, Head(products)), Tail(products))

assign_products_to_vehicles(vs, products) ==
  AssignAll(vs, [assign |-> EmptyAssignments(vs), caps |-> EmptyCapacities(vs),
                 fallback |-> FALSE], products).assign

\* the nearest-neighbour loop of _optimize_single_route run to completion
RECURSIVE NearestNeighbour(_, _, _, _)
NearestNeighbour(cur, unv, stops, total) ==
  IF unv = <<>> THEN [route |-> stops, total |-> total, last |-> cur]
  ELSE LET nearest == unv[NearestIndex(cur, unv)]
           distance == calculate_distance(cur, nearest.delivery_location)
       IN NearestNeighbour(nearest.delivery_location, RemoveFirst(unv, nearest),
                           Append(stops, [product |-> nearest,
                                          location |-> nearest.delivery_location,
                                          distance_from_previous |-> distance]),
                           total + distance)

\* _optimize_single_route for a non-empty product list and the driver drawn
optimize_single_route(vehicle_id, products, driver) ==
  LET nn == NearestNeighbour(Depot, products, <<>>, 0) IN
  [vehicle_id |-> vehicle_id,
   driver_id |-> driver.id,
   driver_name |-> driver.name,
   route |-> nn.route,
   total_distance |-> Round2(nn.total + ReturnLeg(nn.last)),
   products_delivered |-> Len(products)]

\* lines 125-128 for one date: the vehicles with a non-empty list, registration order
JobsOfGroup(vs, assign) ==
  LET loaded == SelectSeq(vs, LAMBDA v : assign[v.id] # <<>>)
  IN [k \in 1..Len(loaded) |-> [vehicle_id |-> loaded[k].id,
                                products |-> assign[loaded[k].id]]]

\* lines 115-128: the (vehicle, products) pairs a route is built for, in order
RECURSIVE RouteJobs(_, _, _)
RouteJobs(vs, products, dates) ==
  IF dates = <<>> THEN <<>>
  ELSE JobsOfGroup(vs, assign_products_to_vehicles(
                         vs, SortedProducts(GroupOf(products, Head(dates)))))
       \o RouteJobs(vs, products, Tail(dates))

\* optimize_routes once both registries are non-empty; pick[k] is the position of
\* the driver random.choice returns for the k-th route
optimize_routes(vs, ds, products, pick) ==
  LET jobs == RouteJobs(vs, products, GroupDates(products))
  IN [k \in 1..Len(jobs) |->
        optimize_single_route(jobs[k].vehicle_id, jobs[k].products, ds[pick[k]])]

\* number of routes optimize_routes builds
RouteCount(vs, products) == Len(RouteJobs(vs, products, GroupDates(products)))

\* ---------------------------------------------------------------- inputs
ProductKinds ==
  [Weight : 1..MaxWeight, Length : 1..MaxDim, Width : {1}, Height : {2},
   Priority : {"Medium"}, Fragile : {FALSE}]

\* a product row as the planner receives it, with its delivery location
MkProduct(id, kind, loc) ==
  [Product |-> id, Weight |-> kind.Weight, Length |-> kind.Length,
   Width |-> kind.Width, Height |-> kind.Height, Priority |-> kind.Priority,
   Fragile |-> kind.Fragile, delivery_location |-> loc]

VehicleKinds ==
  [capacity_weight : 1..MaxCapWeight, capacity_volume : 2..MaxCapVolume,
   available : BOOLEAN]

MkVehicle(id, kind) ==
  [id |-> id, capacity_weight |-> kind.capacity_weight,
   capacity_volume |-> kind.capacity_volume, available |-> kind.available]

\* no run of _optimize_single_route is in progress
RouteIdle ==
  /\ r_pc = "idle"
  /\ r_vehicle_id = 0
  /\ r_products = <<>>
  /\ unvisited = <<>>
  /\ route = <<>>
  /\ current_location = Depot
  /\ total_distance = 0
  /\ r_driver = None
  /\ r_result = None

\* the DynamicOptimizer as __init__ leaves it
CtlIdle ==
  /\ is_running = FALSE
  /\ pc = "none"
  /\ event_queue = <<>>
  /\ current_state = <<>>
  /\ state_keys = <<>>
  /\ last_optimization = NoTime
  /\ now = 0
  /\ last_fire = NoTime
  /\ cycle_outcome = "none"
  /\ n_events = 0
  /\ optimization_callbacks = <<>>
  /\ notified = <<>>
  /\ callers = [c \in 1..NumCallers |-> [at |-> "idle", target |-> 0]]
  /\ threads = <<>>
  /\ optimization_thread = 0
  /\ snapshot = NoSnapshot
  /\ logged_movement = <<>>
  /\ call = NoCall
  /\ dispatch_routes = <<>>

\* no call of optimize_routes is in progress
OptIdle ==
  /\ o_pc = "idle"
  /\ o_error = "none"
  /\ products_with_locations = <<>>
  /\ optimized_routes = <<>>
  /\ o_assign_calls = 0
  /\ o_route_calls = 0

\* no run of _assign_products_to_vehicles is in progress
AssignIdle ==
  /\ a_pc = "idle"
  /\ a_products = <<>>
  /\ a_idx = 0
  /\ vehicle_assignments = <<>>
  /\ vehicle_capacities = <<>>
  /\ fallback_items = {}
  /\ warnings = <<>>

\* ------------------------------------------------------- SpecAssign
InitAssign ==
  /\ \E n \in 1..MaxVehicles : \E k \in [1..n -> VehicleKinds] :
       vehicles = [i \in 1..n |-> MkVehicle(i, k[i])]
  /\ drivers = <<>>
  /\ \E n \in 0..MaxItems : \E k \in [1..n -> ProductKinds] :
       a_products = [i \in 1..n |-> MkProduct(i, k[i], <<0, 0>>)]
  /\ a_pc = "idle"
  /\ a_idx = 0
  /\ vehicle_assignments = <<>>
  /\ vehicle_capacities = <<>>
  /\ fallback_items = {}
  /\ warnings = <<>>
  /\ RouteIdle
  /\ CtlIdle
  /\ OptIdle

\* lines 145-146: entry of _assign_products_to_vehicles
AssignBegin ==
  /\ a_pc = "idle"
  /\ a_pc' = "loop"
  /\ vehicle_assignments' = EmptyAssignments(vehicles)
  /\ vehicle_capacities' = EmptyCapacities(vehicles)
  /\ UNCHANGED <<auxVars, a_products, a_idx, fallback_items, warnings, fleetVars, routeVars, ctlVars>>

\* lines 148-173: one iteration of the loop over products
AssignProduct ==
  /\ a_pc = "loop"
  /\ a_idx < Len(a_products)
  /\ LET product == a_products[a_idx + 1]
         st == AssignStep(vehicles,
                          [assign |-> vehicle_assignments, caps |-> vehicle_capacities],
                          product)
     IN /\ vehicle_assignments' = st.assign
        /\ vehicle_capacities' = st.caps
        /\ fallback_items' = IF st.fallback THEN fallback_items \cup {product.Product}
                             ELSE fallback_items
  /\ a_idx' = a_idx + 1
  /\ UNCHANGED <<auxVars, a_pc, a_products, warnings, fleetVars, routeVars, ctlVars>>

\* line 175: return vehicle_assignments
AssignReturn ==
  /\ a_pc = "loop"
  /\ a_idx = Len(a_products)
  /\ a_pc' = "done"
  /\ UNCHANGED <<auxVars, a_products, a_idx, vehicle_assignments, vehicle_capacities,
                 fallback_items, warnings, fleetVars, routeVars, ctlVars>>

NextAssign == AssignBegin \/ AssignProduct \/ AssignReturn

SpecAssign == InitAssign /\ [][NextAssign]_vars

\* ------------------------------------------------------- SpecRoute
DriverKinds == [available : BOOLEAN]

MkDriver(id, kind) == [id |-> id, name |-> <<"driver", id>>, available |-> kind.available]

Locations == (0..MaxCoord) \X (0..MaxCoord)

\* a product whose only varying attribute is where it is delivered
Parcel(id, loc) ==
  MkProduct(id, [Weight |-> 1, Length |-> 1, Width |-> 1, Height |-> 2,
                 Priority |-> "Medium", Fragile |-> FALSE], loc)

InitRoute ==
  /\ vehicles = <<MkVehicle(1, [capacity_weight |-> MaxCapWeight,
                                capacity_volume |-> MaxCapVolume, available |-> TRUE])>>
  /\ \E n \in 1..MaxDrivers : \E k \in [1..n -> DriverKinds] :
       drivers = [i \in 1..n |-> MkDriver(i, k[i])]
  /\ AssignIdle
  /\ r_pc = "idle"
  /\ r_vehicle_id = 1
  /\ \E n \in 0..MaxStops : \E loc \in [1..n -> Locations] :
       r_products = [i \in 1..n |-> Parcel(i, loc[i])]
  /\ unvisited = <<>>
  /\ route = <<>>
  /\ current_location = Depot
  /\ total_distance = 0
  /\ r_driver = None
  /\ r_result = None
  /\ CtlIdle
  /\ OptIdle

\* lines 180-192: the empty case, the copy, the vehicle lookup, the driver draw
RouteBegin ==
  /\ r_pc = "idle"
  /\ r_vehicle_id # 0
  /\ IF r_products = <<>>
     THEN /\ r_pc' = "done"
          /\ r_result' = <<>>
          /\ UNCHANGED <<unvisited, r_driver>>
     ELSE IF AvailableDrivers(drivers) = {}
     THEN /\ r_pc' = "raised"
          /\ unvisited' = r_products
          /\ UNCHANGED <<r_driver, r_result>>
     ELSE /\ \E d \in AvailableDrivers(drivers) : r_driver' = drivers[d]
          /\ r_pc' = "loop"
          /\ unvisited' = r_products
          /\ UNCHANGED r_result
  /\ UNCHANGED <<auxVars, r_vehicle_id, r_products, route, current_location, total_distance,
                 fleetVars, planVars, ctlVars>>

\* lines 195-215: one iteration of the nearest-neighbour loop
RouteVisit ==
  /\ r_pc = "loop"
  /\ unvisited # <<>>
  /\ LET nearest == unvisited[NearestIndex(current_location, unvisited)]
         distance == calculate_distance(current_location, nearest.delivery_location)
     IN /\ total_distance' = total_distance + distance
        /\ route' = Append(route, [product |-> nearest,
                                   location |-> nearest.delivery_location,
                                   distance_from_previous |-> distance])
        /\ current_location' = nearest.delivery_location
        /\ unvisited' = RemoveFirst(unvisited, nearest)
  /\ UNCHANGED <<auxVars, r_pc, r_vehicle_id, r_products, r_driver, r_result, fleetVars, planVars,
                 ctlVars>>

\* lines 217-246: the return trip and the returned dictionary
RouteFinish ==
  /\ r_pc = "loop"
  /\ unvisited = <<>>
  /\ total_distance' = total_distance + ReturnLeg(current_location)
  /\ r_result' = [vehicle_id |-> r_vehicle_id,
                  driver_id |-> r_driver.id,
                  driver_name |-> r_driver.name,
                  route |-> route,
                  total_distance |-> Round2(total_distance'),
                  products_delivered |-> Len(r_products)]
  /\ r_pc' = "done"
  /\ UNCHANGED <<auxVars, r_vehicle_id, r_products, unvisited, route, current_location, r_driver,
                 fleetVars, planVars, ctlVars>>

NextRoute == RouteBegin \/ RouteVisit \/ RouteFinish

SpecRoute == InitRoute /\ [][NextRoute]_vars

\* ======================================================================
\* DynamicOptimizer
\* ======================================================================

\* ---- events, as the callers of add_event build them
GoodsIn(product, location) ==
  [type |-> "goods_in", product |-> product, location |-> location]
GoodsOut(product_id, destination) ==
  [type |-> "goods_out", product_id |-> product_id, destination |-> destination]
LocationChange(product_id, new_location) ==
  [type |-> "location_change", product_id |-> product_id, new_location |-> new_location]
PriorityChange(product_id, new_priority) ==
  [type |-> "priority_change", product_id |-> product_id, new_priority |-> new_priority]
VehicleStatus(vehicle_id, status) ==
  [type |-> "vehicle_status", vehicle_id |-> vehicle_id, status |-> status]
DriverStatus(driver_id, status) ==
  [type |-> "driver_status", driver_id |-> driver_id, status |-> status]

\* 'product': None in a goods_in event
NoProduct == <<>>

\* the handler raises before it has changed anything: _handle_goods_in calls
\* product.get (line 156) on a product that is no dictionary
HandlerRaises(event) == event.type = "goods_in" /\ DOMAIN event.product = {}

\* the product row carried by the goods_in events of product id
CtlProduct(id) ==
  [Product |-> id, Weight |-> IF id % 2 = 1 THEN 2 ELSE 1, Length |-> 1, Width |-> 1,
   Height |-> 2, Priority |-> "Medium", Fragile |-> FALSE]

\* ---- handlers: each maps the dictionaries it touches to their new value

\* _handle_goods_in: the record written at lines 158-163; the keys a later
\* handler adds are present from the start with an empty value
NewRecord(product, location) ==
  [product |-> product, location |-> location, status |-> "available",
   destination |-> None, dispatch_time |-> NoTime,
   assigned_vehicle |-> 0, assigned_driver |-> <<>>]

handle_goods_in(cs, event) ==
  LET product_id == event.product.Product IN
  [k \in DOMAIN cs \cup {product_id} |->
     IF k = product_id THEN NewRecord(event.product, event.location) ELSE cs[k]]

\* dict insertion order: a new key goes last, an existing key keeps its place
KeysAfterInsert(cs, keys, product_id) ==
  IF product_id \in DOMAIN cs THEN keys ELSE Append(keys, product_id)

\* mutation of handle_goods_out: a record that is already dispatched is put back
handle_goods_out_Toggle(cs, event, t) ==
  IF event.product_id \in DOMAIN cs
  THEN [cs EXCEPT ![event.product_id].status =
                     IF @ = "dispatched" THEN "available" ELSE "dispatched",
                  ![event.product_id].destination = event.destination,
                  ![event.product_id].dispatch_time = t]
  ELSE cs

\* _handle_goods_out at clock t
handle_goods_out(cs, event, t) ==
  IF event.product_id \in DOMAIN cs
  THEN [cs EXCEPT ![event.product_id].status = "dispatched",
                  ![event.product_id].destination = event.destination,
                  ![event.product_id].dispatch_time = t]
  ELSE cs

\* mutation of handle_location_change: the test of line 185 is lost and a
\* record is made for an id that has none
handle_location_change_NoGuard(cs, event) ==
  [k \in DOMAIN cs \cup {event.product_id} |->
     IF k = event.product_id
     THEN [(IF k \in DOMAIN cs THEN cs[k] ELSE NewRecord(<<>>, None))
             EXCEPT !.location = event.new_location]
     ELSE cs[k]]

\* _handle_location_change
handle_location_change(cs, event) ==
  IF event.product_id \in DOMAIN cs
  THEN [cs EXCEPT ![event.product_id].location = event.new_location]
  ELSE cs

\* _handle_priority_change
handle_priority_change(cs, event) ==
  IF event.product_id \in DOMAIN cs
  THEN [cs EXCEPT ![event.product_id].product.Priority = event.new_priority]
  ELSE cs

\* the loop with break shared by _handle_vehicle_status and _handle_driver_status
SetAvailable(registry, id, status) ==
  IF \E i \in 1..Len(registry) : registry[i].id = id
  THEN LET i == CHOOSE i \in 1..Len(registry) :
                  /\ registry[i].id = id
                  /\ \A j \in 1..(i-1) : registry[j].id # id
       IN [registry EXCEPT ![i].available = (status = "available")]
  ELSE registry

\* _handle_event up to, and without, the movement log: the dispatch on the type
handle_event(cs, keys, vs, ds, event, t) ==
  CASE event.type = "goods_in" ->
         [state |-> handle_goods_in(cs, event),
          keys |-> KeysAfterInsert(cs, keys, event.product.Product),
          vehicles |-> vs, drivers |-> ds]
    [] event.type = "goods_out" ->
         [state |-> handle_goods_out(cs, event, t), keys |-> keys,
          vehicles |-> vs, drivers |-> ds]
    [] event.type = "location_change" ->
         [state |-> handle_location_change(cs, event), keys |-> keys,
          vehicles |-> vs, drivers |-> ds]
    [] event.type = "priority_change" ->
         [state |-> handle_priority_change(cs, event), keys |-> keys,
          vehicles |-> vs, drivers |-> ds]
    [] event.type = "vehicle_status" ->
         [state |-> cs, keys |-> keys,
          vehicles |-> SetAvailable(vs, event.vehicle_id, event.status), drivers |-> ds]
    [] event.type = "driver_status" ->
         [state |-> cs, keys |-> keys,
          vehicles |-> vs, drivers |-> SetAvailable(ds, event.driver_id, event.status)]
    [] OTHER -> [state |-> cs, keys |-> keys, vehicles |-> vs, drivers |-> ds]

\* the records whose status is 'available'
AvailableIds(cs) == {k \in DOMAIN cs : cs[k].status = "available"}

\* lines 256-257: the products of the available records, in dictionary order
AvailableProducts(cs, keys) ==
  LET ks == SelectSeq(keys, LAMBDA k : cs[k].status = "available")
  IN [i \in 1..Len(ks) |-> cs[ks[i]].product]

\* mutation of should_optimize: the elapsed-time test is lost
should_optimize_NoInterval(last, t, cs) ==
  IF last = NoTime THEN TRUE
  ELSE IF Cardinality(AvailableIds(cs)) < MinAvailable THEN FALSE
  ELSE TRUE

\* mutation of should_optimize: the threshold is compared with <=
should_optimize_OffByOne(last, t, cs) ==
  IF last = NoTime THEN TRUE
  ELSE IF t - last < OptimizationInterval THEN FALSE
  ELSE IF Cardinality(AvailableIds(cs)) <= MinAvailable THEN FALSE
  ELSE TRUE

\* _should_optimize at clock t
should_optimize(last, t, cs) ==
  IF last = NoTime THEN TRUE
  ELSE IF t - last < OptimizationInterval THEN FALSE
  ELSE IF Cardinality(AvailableIds(cs)) < MinAvailable THEN FALSE
  ELSE TRUE

\* mutation of MergeStop: the assignment is written to every record, not only
\* to the record of the stop's product
MergeStop_EveryRecord(cs, r, stop) ==
  [k \in DOMAIN cs |-> [cs[k] EXCEPT !.assigned_vehicle = r.vehicle_id,
                                     !.assigned_driver = r.driver_name]]

\* lines 330-336 for one stop of one route
MergeStop(cs, r, stop) ==
  IF stop.product.Product \in DOMAIN cs
  THEN [cs EXCEPT ![stop.product.Product].assigned_vehicle = r.vehicle_id,
                  ![stop.product.Product].assigned_driver = r.driver_name]
  ELSE cs

RECURSIVE MergeStops(_, _, _)
MergeStops(cs, r, stops) ==
  IF stops = <<>> THEN cs
  ELSE MergeStops(MergeStop(cs, r, Head(stops)), r, Tail(stops))

\* _update_state_with_optimization: the dispatch assignments of lines 329-336
RECURSIVE update_state_with_optimization(_, _)
update_state_with_optimization(cs, routes) ==
  IF routes = <<>> THEN cs
  ELSE update_state_with_optimization(MergeStops(cs, Head(routes), Head(routes).route),
                                      Tail(routes))

\* ---- the dictionary returned by get_current_state
\* self.current_state.copy() is a new dictionary holding the same record
\* objects.  A handler that assigns a field of a record changes the object, so
\* the change shows under every dictionary that holds it; _handle_goods_in
\* binds the key to a new object and clear() drops the entries, which leaves
\* the object held by the copy as it was.

\* the keys an event binds to a new record object
Rebound(event) == IF event.type = "goods_in" THEN {event.product.Product} ELSE {}

\* the returned dictionary after the controller made cs of its own one,
\* binding the keys of rebound to new objects
Track(snap, cs, rebound) ==
  [snap EXCEPT !.shared = @ \ rebound,
               !.view = [k \in DOMAIN snap.view |->
                           IF k \in snap.shared \ rebound THEN cs[k] ELSE snap.view[k]]]

\* get_current_state: line 376
get_current_state ==
  /\ snapshot' = [taken |-> TRUE, shared |-> DOMAIN current_state, view |-> current_state]
  /\ UNCHANGED <<cbVars, thrVars, optVars, logged_movement, call, dispatch_routes, fleetVars, planVars, routeVars, ctlVars>>

\* the holder of the returned dictionary assigns the location field of the
\* record under key k
edit_snapshot_record(k, location) ==
  /\ snapshot.taken
  /\ k \in DOMAIN snapshot.view
  /\ snapshot' = [snapshot EXCEPT !.view[k].location = location]
  /\ current_state' = IF k \in snapshot.shared
                       THEN [current_state EXCEPT ![k].location = location]
                       ELSE current_state
  /\ UNCHANGED <<cbVars, thrVars, optVars, logged_movement, call, dispatch_routes, fleetVars, planVars, routeVars, is_running, pc,
                 event_queue, state_keys, last_optimization, now, last_fire,
                 cycle_outcome, n_events>>

\* the holder of the returned dictionary deletes the entry of key k from it
delete_snapshot_entry(k) ==
  /\ snapshot.taken
  /\ k \in DOMAIN snapshot.view
  /\ snapshot' = [snapshot EXCEPT !.shared = @ \ {k},
                                  !.view = [j \in DOMAIN snapshot.view \ {k} |->
                                              snapshot.view[j]]]
  /\ UNCHANGED <<cbVars, thrVars, optVars, logged_movement, call, dispatch_routes, fleetVars, planVars, routeVars, ctlVars>>

\* ---- completion callbacks
\* a callback is a record [id, raises]: id is its registration number, raises
\* tells whether calling it raises an Exception

\* mutation of notify_optimization_callbacks: no try around the call, the first
\* callback that raises ends the iteration
RECURSIVE notify_optimization_callbacks_NoTry(_)
notify_optimization_callbacks_NoTry(callbacks) ==
  IF callbacks = <<>> THEN <<>>
  ELSE IF Head(callbacks).raises THEN <<Head(callbacks).id>>
  ELSE <<Head(callbacks).id>> \o notify_optimization_callbacks_NoTry(Tail(callbacks))

\* _notify_optimization_callbacks: the ids of the callbacks called, in call
\* order; an Exception raised by one of them is caught at line 367
RECURSIVE notify_optimization_callbacks(_)
notify_optimization_callbacks(callbacks) ==
  IF callbacks = <<>> THEN <<>>
  ELSE <<Head(callbacks).id>> \o notify_optimization_callbacks(Tail(callbacks))

\* add_optimization_callback
add_optimization_callback(raises) ==
  /\ optimization_callbacks' =
       Append(optimization_callbacks,
              [id |-> Len(optimization_callbacks) + 1, raises |-> raises])
  /\ UNCHANGED <<notified, thrVars, optVars, snapshot, logged_movement, call, dispatch_routes, fleetVars, planVars, routeVars, ctlVars>>

\* ---- callers

\* mutation of add_event: the event goes to the front of the queue
add_event_Front(event) ==
  /\ event_queue' = <<event>> \o event_queue
  /\ n_events' = n_events + 1
  /\ UNCHANGED <<auxVars, is_running, pc, current_state, state_keys, last_optimization, now,
                 last_fire, cycle_outcome, fleetVars, planVars, routeVars>>

\* add_event: queue.put on an unbounded queue, never blocks
add_event(event) ==
  /\ event_queue' = Append(event_queue, event)
  /\ n_events' = n_events + 1
  /\ UNCHANGED <<auxVars, is_running, pc, current_state, state_keys, last_optimization, now,
                 last_fire, cycle_outcome, fleetVars, planVars, routeVars>>

\* start_dynamic_optimization, called while no earlier stop call is still joining
start_dynamic_optimization ==
  /\ pc \in {"none", "exited"} \/ is_running
  /\ IF is_running
     THEN UNCHANGED <<is_running, pc>>
     ELSE is_running' = TRUE /\ pc' = "loop"
  /\ UNCHANGED <<auxVars, event_queue, current_state, state_keys, last_optimization, now,
                 last_fire, cycle_outcome, n_events, fleetVars, planVars, routeVars>>

\* stop_dynamic_optimization: clears the flag; its join returns once pc = "exited"
stop_dynamic_optimization ==
  /\ is_running' = FALSE
  /\ UNCHANGED <<auxVars, pc, event_queue, current_state, state_keys, last_optimization, now,
                 last_fire, cycle_outcome, n_events, fleetVars, planVars, routeVars>>

\* mutation of reset_state: the timestamp is cleared with the rest
reset_state_ClearsTimestamp ==
  /\ current_state' = <<>>
  /\ state_keys' = <<>>
  /\ event_queue' = <<>>
  /\ last_optimization' = NoTime
  /\ snapshot' = [snapshot EXCEPT !.shared = {}]
  /\ UNCHANGED <<cbVars, thrVars, optVars, logged_movement, call, dispatch_routes, is_running, pc, now, last_fire, cycle_outcome,
                 n_events, fleetVars, planVars, routeVars>>

\* reset_state
reset_state ==
  /\ current_state' = <<>>
  /\ state_keys' = <<>>
  /\ event_queue' = <<>>
  /\ snapshot' = [snapshot EXCEPT !.shared = {}]
  /\ UNCHANGED <<cbVars, thrVars, optVars, logged_movement, call, dispatch_routes, is_running, pc, last_optimization, now, last_fire,
                 cycle_outcome, n_events, fleetVars, planVars, routeVars>>

\* set_vehicles and set_drivers as the upload handler calls them (ui/app.py 86-89)
set_fleet(vs, ds) ==
  /\ vehicles' = vs
  /\ drivers' = ds
  /\ UNCHANGED <<auxVars, planVars, routeVars, ctlVars>>

\* ---- the worker thread

\* line 103: while self.is_running
LoopTest ==
  /\ pc = "loop"
  /\ pc' = IF is_running THEN "drain" ELSE "exited"
  /\ UNCHANGED <<auxVars, is_running, event_queue, current_state, state_keys, last_optimization,
                 now, last_fire, cycle_outcome, n_events, fleetVars, planVars, routeVars>>

\* mutation of ProcessEvent: the event is taken off the queue only after it
\* has been handled and logged, so an event that raised is still at the head
ProcessEvent_TakesAfter ==
  /\ pc = "drain"
  /\ event_queue # <<>>
  /\ IF HandlerRaises(Head(event_queue))
     THEN /\ pc' = "backoff"
          /\ UNCHANGED event_queue
          /\ logged_movement' = <<Head(event_queue), FALSE>>
          /\ UNCHANGED <<current_state, state_keys, vehicles, drivers, snapshot>>
     ELSE /\ LET h == handle_event(current_state, state_keys, vehicles, drivers,
                                   Head(event_queue), now)
             IN /\ current_state' = h.state
                /\ state_keys' = h.keys
                /\ vehicles' = h.vehicles
                /\ drivers' = h.drivers
          /\ snapshot' = Track(snapshot, current_state', Rebound(Head(event_queue)))
          /\ \E logged \in BOOLEAN :
               /\ pc' = IF logged THEN "drain" ELSE "backoff"
               /\ event_queue' = IF logged THEN Tail(event_queue) ELSE event_queue
               /\ logged_movement' = <<Head(event_queue), logged>>
  /\ UNCHANGED <<cbVars, thrVars, optVars, call, dispatch_routes, is_running, last_optimization,
                 now, last_fire, cycle_outcome, n_events, planVars, routeVars>>

\* lines 124-127 and 131-149: one event taken and handled.  The handler raises
\* on an event it cannot read; logged tells whether _log_movement_event
\* returned or raised.  Either way the event has left the queue (line 126)
ProcessEvent ==
  /\ pc = "drain"
  /\ event_queue # <<>>
  /\ IF HandlerRaises(Head(event_queue))
     THEN /\ pc' = "backoff"
          /\ logged_movement' = <<Head(event_queue), FALSE>>
          /\ UNCHANGED <<current_state, state_keys, vehicles, drivers, snapshot>>
     ELSE /\ LET h == handle_event(current_state, state_keys, vehicles, drivers,
                                   Head(event_queue), now)
             IN /\ current_state' = h.state
                /\ state_keys' = h.keys
                /\ vehicles' = h.vehicles
                /\ drivers' = h.drivers
          /\ snapshot' = Track(snapshot, current_state', Rebound(Head(event_queue)))
          /\ \E logged \in BOOLEAN :
               /\ pc' = IF logged THEN "drain" ELSE "backoff"
               /\ logged_movement' = <<Head(event_queue), logged>>
  /\ event_queue' = Tail(event_queue)
  /\ UNCHANGED <<cbVars, thrVars, optVars, call, dispatch_routes, is_running, last_optimization,
                 now, last_fire, cycle_outcome, n_events, planVars, routeVars>>

\* line 124: the queue is empty, _process_events returns
DrainDone ==
  /\ pc = "drain"
  /\ event_queue = <<>>
  /\ pc' = "check"
  /\ logged_movement' = <<>>
  /\ UNCHANGED <<auxRest, dispatch_routes, is_running, event_queue, current_state, state_keys, last_optimization,
                 now, last_fire, cycle_outcome, n_events, fleetVars, planVars, routeVars>>

\* line 109: if self._should_optimize()
CheckTrigger ==
  /\ pc = "check"
  /\ IF should_optimize(last_optimization, now, current_state)
     THEN pc' = "optimize" /\ last_fire' = now
     ELSE pc' = "metrics" /\ UNCHANGED last_fire
  /\ UNCHANGED <<auxVars, is_running, event_queue, current_state, state_keys, last_optimization,
                 now, cycle_outcome, n_events, fleetVars, planVars, routeVars>>

\* mutation of perform_optimization: the callbacks are notified in a finally
\* clause, after a failed attempt too
perform_optimization_NotifiesOnFailure(Draws) ==
  /\ pc = "optimize"
  /\ LET available_products == AvailableProducts(current_state, state_keys) IN
     IF available_products = <<>>
     THEN /\ cycle_outcome' = "skipped"
          /\ pc' = "metrics"
          /\ notified' = <<>>
          /\ dispatch_routes' = <<>>
          /\ UNCHANGED <<current_state, last_optimization, snapshot>>
     ELSE \E external \in BOOLEAN :
          \E draws \in [1..Len(available_products) -> Draws] :
            LET located == assign_delivery_locations(available_products, draws) IN
            IF \/ ~external
               \/ vehicles = <<>>
               \/ drivers = <<>>
               \/ AvailableDrivers(drivers) = {}
            THEN /\ \E logged \in BOOLEAN :
                      /\ cycle_outcome' = IF logged THEN "failed" ELSE "raised"
                      /\ pc' = IF logged THEN "metrics" ELSE "backoff"
                 /\ notified' = notify_optimization_callbacks(optimization_callbacks)
                 /\ dispatch_routes' = <<>>
                 /\ UNCHANGED <<current_state, last_optimization, snapshot>>
            ELSE \E pick \in [1..RouteCount(vehicles, located)
                               -> AvailableDrivers(drivers)] :
                   /\ dispatch_routes' = optimize_routes(vehicles, drivers, located, pick)
                   /\ current_state' = update_state_with_optimization(current_state,
                                                                      dispatch_routes')
                   /\ snapshot' = Track(snapshot, current_state', {})
                   /\ notified' = notify_optimization_callbacks(optimization_callbacks)
                   /\ last_optimization' = now
                   /\ cycle_outcome' = "success"
                   /\ pc' = "metrics"
  /\ UNCHANGED <<optimization_callbacks, thrVars, optVars, logged_movement, call, is_running,
                 event_queue, state_keys, now,
                 last_fire, n_events, fleetVars, planVars, routeVars>>

\* lines 250-317: one _perform_optimization call.  Draws is what the random
\* source of assign_delivery_locations can return for one product; external
\* tells whether the storage packer and the history log went through; logged
\* tells whether the _log_optimization call of the except branch wrote the
\* 'failed' row and returned, or raised, which takes the error on to the
\* except branch of the loop.
perform_optimization(Draws) ==
  /\ pc = "optimize"
  /\ LET available_products == AvailableProducts(current_state, state_keys) IN
     IF available_products = <<>>
     THEN /\ cycle_outcome' = "skipped"
          /\ pc' = "metrics"
          /\ notified' = <<>>
          /\ dispatch_routes' = <<>>
          /\ UNCHANGED <<current_state, last_optimization, snapshot>>
     ELSE \E external \in BOOLEAN :
          \E draws \in [1..Len(available_products) -> Draws] :
            LET located == assign_delivery_locations(available_products, draws) IN
            IF \/ ~external
               \/ vehicles = <<>>
               \/ drivers = <<>>
               \/ AvailableDrivers(drivers) = {}
            THEN /\ \E logged \in BOOLEAN :
                      /\ cycle_outcome' = IF logged THEN "failed" ELSE "raised"
                      /\ pc' = IF logged THEN "metrics" ELSE "backoff"
                 /\ notified' = <<>>
                 /\ dispatch_routes' = <<>>
                 /\ UNCHANGED <<current_state, last_optimization, snapshot>>
            ELSE \E pick \in [1..RouteCount(vehicles, located)
                               -> AvailableDrivers(drivers)] :
                   /\ dispatch_routes' = optimize_routes(vehicles, drivers, located, pick)
                   /\ current_state' = update_state_with_optimization(current_state,
                                                                      dispatch_routes')
                   /\ snapshot' = Track(snapshot, current_state', {})
                   /\ notified' = notify_optimization_callbacks(optimization_callbacks)
                   /\ last_optimization' = now
                   /\ cycle_outcome' = "success"
                   /\ pc' = "metrics"
  /\ UNCHANGED <<optimization_callbacks, thrVars, optVars, logged_movement, call, is_running,
                 event_queue, state_keys, now,
                 last_fire, n_events, fleetVars, planVars, routeVars>>

\* lines 113 and 338-356: _update_metrics; logged tells whether _log_metrics
\* returned or raised
UpdateMetrics ==
  /\ pc = "metrics"
  /\ \E logged \in BOOLEAN : pc' = IF logged THEN "sleep" ELSE "backoff"
  /\ dispatch_routes' = <<>>
  /\ UNCHANGED <<auxRest, logged_movement, is_running, event_queue, current_state, state_keys, last_optimization,
                 now, last_fire, cycle_outcome, n_events, fleetVars, planVars, routeVars>>

\* line 116: time.sleep(30)
Sleep(horizon) ==
  /\ pc = "sleep"
  /\ now + TickSleep <= horizon
  /\ now' = now + TickSleep
  /\ pc' = "loop"
  /\ UNCHANGED <<auxVars, is_running, event_queue, current_state, state_keys, last_optimization,
                 last_fire, cycle_outcome, n_events, fleetVars, planVars, routeVars>>

\* mutation of Backoff: the error is not caught and ends the thread
Backoff_Dies(horizon) ==
  /\ pc = "backoff"
  /\ now + ErrorSleep <= horizon
  /\ pc' = "exited"
  /\ logged_movement' = <<>>
  /\ UNCHANGED <<auxRest, dispatch_routes, is_running, event_queue, current_state, state_keys, last_optimization,
                 now, last_fire, cycle_outcome, n_events, fleetVars, planVars, routeVars>>

\* lines 118-120: the except branch of the loop
Backoff(horizon) ==
  /\ pc = "backoff"
  /\ now + ErrorSleep <= horizon
  /\ now' = now + ErrorSleep
  /\ pc' = "loop"
  /\ logged_movement' = <<>>
  /\ UNCHANGED <<auxRest, dispatch_routes, is_running, event_queue, current_state, state_keys, last_optimization,
                 last_fire, cycle_outcome, n_events, fleetVars, planVars, routeVars>>

\* ---- the fleet the upload handler loads
CtlVehicles ==
  <<MkVehicle(1, [capacity_weight |-> 2, capacity_volume |-> 4, available |-> TRUE]),
    MkVehicle(2, [capacity_weight |-> 3, capacity_volume |-> 4, available |-> TRUE])>>

CtlDrivers == <<MkDriver(1, [available |-> TRUE]), MkDriver(2, [available |-> TRUE])>>

\* ------------------------------------------------------------- Spec
SpecEvents ==
  {GoodsIn(CtlProduct(id), "Receiving") : id \in 1..SpecProducts}
  \cup {GoodsOut(id, "Customer A") : id \in 1..SpecProducts}
  \cup {GoodsOut(1, "Customer B")}
  \cup {LocationChange(1, "ZoneA"), PriorityChange(SpecProducts, "High"),
        VehicleStatus(1, "maintenance"), DriverStatus(1, "off_duty")}

SpecDraws ==
  {[day |-> d, hour |-> h, location |-> <<d, h - 7>>] : d \in 1..2, h \in 8..9}

Init ==
  /\ vehicles = <<>>
  /\ drivers = <<>>
  /\ AssignIdle
  /\ RouteIdle
  /\ CtlIdle
  /\ OptIdle

AddEvent ==
  \E event \in SpecEvents :
    /\ Len(event_queue) < MaxQueue
    /\ n_events < MaxEvents
    /\ add_event(event)
Start == start_dynamic_optimization
Stop == stop_dynamic_optimization
ResetState == reset_state
SetFleet == set_fleet(CtlVehicles, CtlDrivers)
PerformOptimization == perform_optimization(SpecDraws)
SleepTick == Sleep(SpecMaxTime)
BackoffTick == Backoff(SpecMaxTime)

Next ==
  \/ AddEvent \/ Start \/ Stop \/ ResetState \/ SetFleet
  \/ LoopTest \/ ProcessEvent \/ DrainDone \/ CheckTrigger \/ PerformOptimization
  \/ UpdateMetrics \/ SleepTick \/ BackoffTick

Spec == Init /\ [][Next]_vars

\* ------------------------------------------------------ SpecTrigger
\* the product ids that have a record or a goods_in event under way
KnownIds ==
  DOMAIN current_state
  \cup {event_queue[i].product.Product :
          i \in {j \in 1..Len(event_queue) : event_queue[j].type = "goods_in"}}

\* products arrive in the order of their ids; the first of them may leave again
TriggerEvents ==
  {GoodsIn(CtlProduct(id), "Receiving") :
     id \in {i \in 1..NumProducts : i \notin KnownIds /\ \A j \in 1..(i-1) : j \in KnownIds}}
  \cup {GoodsOut(1, "Customer A")}

TriggerDraws == {[day |-> 1, hour |-> 8, location |-> <<1, 1>>]}

TriggerVehicles ==
  <<MkVehicle(1, [capacity_weight |-> 3, capacity_volume |-> 4, available |-> TRUE])>>

TriggerDrivers == <<MkDriver(1, [available |-> TRUE])>>

TriggerAddEvent ==
  \E event \in TriggerEvents :
    /\ Len(event_queue) < MaxQueue
    /\ n_events < MaxTriggerEvents
    /\ add_event(event)
TriggerSetFleet == vehicles = <<>> /\ set_fleet(TriggerVehicles, TriggerDrivers)
TriggerPerformOptimization == perform_optimization(TriggerDraws)
TriggerSleep == Sleep(TriggerMaxTime)
TriggerBackoff == Backoff(TriggerMaxTime)

NextTrigger ==
  \/ TriggerAddEvent \/ Start \/ TriggerSetFleet
  \/ LoopTest \/ ProcessEvent \/ DrainDone \/ CheckTrigger \/ TriggerPerformOptimization
  \/ UpdateMetrics \/ TriggerSleep \/ TriggerBackoff

SpecTrigger == Init /\ [][NextTrigger]_vars

\* --------------------------------------------------------- SpecPlan
\* one call of optimize_routes, its two registry tests one step each

\* the registries the call may find
PlanVehicles == {<<>>, TriggerVehicles, CtlVehicles}
PlanDrivers ==
  {<<>>, TriggerDrivers, CtlDrivers,
   <<MkDriver(1, [available |-> FALSE]), MkDriver(2, [available |-> TRUE])>>}

InitPlan ==
  /\ vehicles \in PlanVehicles
  /\ drivers \in PlanDrivers
  /\ \E n \in 1..PlanProducts :
     \E draws \in [1..n -> SpecDraws] : \E tier \in [1..n -> {"High", "Low"}] :
       products_with_locations =
         assign_delivery_locations(
           [i \in 1..n |-> [CtlProduct(i) EXCEPT !.Priority = tier[i]]], draws)
  /\ o_pc = "idle"
  /\ o_error = "none"
  /\ optimized_routes = <<>>
  /\ o_assign_calls = 0
  /\ o_route_calls = 0
  /\ a_pc = "idle"
  /\ a_products = <<>>
  /\ a_idx = 0
  /\ vehicle_assignments = <<>>
  /\ vehicle_capacities = <<>>
  /\ fallback_items = {}
  /\ warnings = <<>>
  /\ RouteIdle
  /\ CtlIdle

optRest == <<products_with_locations, fleetVars, planVars, routeVars, ctlVars, cbVars,
             thrVars, snapshot, logged_movement, call,
                 dispatch_routes>>

\* entry of optimize_routes
PlanBegin ==
  /\ o_pc = "idle"
  /\ o_pc' = "check_vehicles"
  /\ UNCHANGED <<o_error, optimized_routes, o_assign_calls, o_route_calls, optRest>>

\* mutation of PlanCheckVehicles: the driver registry is looked at first
PlanCheckVehicles_DriversFirst ==
  /\ o_pc = "check_vehicles"
  /\ IF drivers = <<>>
     THEN o_pc' = "raised" /\ o_error' = "no_drivers"
     ELSE IF vehicles = <<>>
     THEN o_pc' = "raised" /\ o_error' = "no_vehicles"
     ELSE o_pc' = "check_drivers" /\ UNCHANGED o_error
  /\ UNCHANGED <<optimized_routes, o_assign_calls, o_route_calls, optRest>>

\* lines 105-106: if not self.vehicles: raise
PlanCheckVehicles ==
  /\ o_pc = "check_vehicles"
  /\ IF vehicles = <<>>
     THEN o_pc' = "raised" /\ o_error' = "no_vehicles"
     ELSE o_pc' = "check_drivers" /\ UNCHANGED o_error
  /\ UNCHANGED <<optimized_routes, o_assign_calls, o_route_calls, optRest>>

\* lines 107-108: if not self.drivers: raise
PlanCheckDrivers ==
  /\ o_pc = "check_drivers"
  /\ IF drivers = <<>>
     THEN o_pc' = "raised" /\ o_error' = "no_drivers"
     ELSE o_pc' = "plan" /\ UNCHANGED o_error
  /\ UNCHANGED <<optimized_routes, o_assign_calls, o_route_calls, optRest>>

\* lines 115-128, one iteration: the products of the next date are sorted and
\* handed to _assign_products_to_vehicles (a_products shows the list handed
\* over), then a route is built for each loaded vehicle; with no available
\* driver the first random.choice raises IndexError
PlanGroup ==
  /\ o_pc = "plan"
  /\ o_assign_calls < Len(GroupDates(products_with_locations))
  /\ LET day == GroupDates(products_with_locations)[o_assign_calls + 1]
         sorted_products == SortedProducts(GroupOf(products_with_locations, day))
         jobs == JobsOfGroup(vehicles, assign_products_to_vehicles(vehicles, sorted_products))
     IN /\ a_products' = sorted_products
        /\ o_assign_calls' = o_assign_calls + 1
        /\ IF AvailableDrivers(drivers) = {}
           THEN /\ o_pc' = "raised"
                /\ o_error' = "index_error"
                /\ o_route_calls' = o_route_calls + 1
                /\ UNCHANGED optimized_routes
           ELSE \E pick \in [1..Len(jobs) -> AvailableDrivers(drivers)] :
                  /\ optimized_routes' =
                       optimized_routes \o
                         [k \in 1..Len(jobs) |->
                            optimize_single_route(jobs[k].vehicle_id, jobs[k].products,
                                                  drivers[pick[k]])]
                  /\ o_route_calls' = o_route_calls + Len(jobs)
                  /\ UNCHANGED <<o_pc, o_error>>
  /\ UNCHANGED <<a_pc, a_idx, vehicle_assignments, vehicle_capacities, fallback_items,
                 warnings, products_with_locations, fleetVars, routeVars, ctlVars, cbVars,
                 thrVars, snapshot, logged_movement, call,
                 dispatch_routes>>

\* line 130: every date is done, return optimized_routes
PlanReturn ==
  /\ o_pc = "plan"
  /\ o_assign_calls = Len(GroupDates(products_with_locations))
  /\ o_pc' = "done"
  /\ UNCHANGED <<o_error, optimized_routes, o_assign_calls, o_route_calls, optRest>>

NextPlan == PlanBegin \/ PlanCheckVehicles \/ PlanCheckDrivers \/ PlanGroup \/ PlanReturn

SpecPlan == InitPlan /\ [][NextPlan]_vars

\* ----------------------------------------------------- SpecSnapshot
\* the controller with a caller that takes the state and keeps what it got
SnapshotEvents ==
  {GoodsIn(CtlProduct(id), "Receiving") : id \in 1..SnapshotProducts}
  \cup {GoodsOut(1, "Customer A"), LocationChange(1, "ZoneA"), PriorityChange(1, "High")}

SnapshotAddEvent ==
  \E event \in SnapshotEvents :
    /\ Len(event_queue) < MaxQueue
    /\ n_events < MaxSnapshotEvents
    /\ add_event(event)
SnapshotSleep == Sleep(SnapshotMaxTime)
SnapshotBackoff == Backoff(SnapshotMaxTime)

NextSnapshot ==
  \/ SnapshotAddEvent \/ Start \/ ResetState \/ TriggerSetFleet
  \/ get_current_state
  \/ \E k \in 1..SnapshotProducts : edit_snapshot_record(k, "Edited")
  \/ \E k \in 1..SnapshotProducts : delete_snapshot_entry(k)
  \/ LoopTest \/ ProcessEvent \/ DrainDone \/ CheckTrigger \/ TriggerPerformOptimization
  \/ UpdateMetrics \/ SnapshotSleep \/ SnapshotBackoff

SpecSnapshot == Init /\ [][NextSnapshot]_vars

\* --------------------------------------------------------- SpecLive
\* the controller with a worker thread that is always scheduled again and
\* whose operations all return or raise
LiveEvents == {GoodsIn(CtlProduct(1), "Receiving"), GoodsOut(1, "Customer A")}

LiveAddEvent ==
  \E event \in LiveEvents :
    /\ Len(event_queue) < MaxQueue
    /\ n_events < MaxLiveEvents
    /\ add_event(event)
LiveSleep == Sleep(LiveMaxTime)
LiveBackoff == Backoff(LiveMaxTime)

NextLive ==
  \/ LiveAddEvent \/ Start \/ Stop \/ TriggerSetFleet
  \/ LoopTest \/ ProcessEvent \/ DrainDone \/ CheckTrigger \/ TriggerPerformOptimization
  \/ UpdateMetrics \/ LiveSleep \/ LiveBackoff

WorkerFairness ==
  /\ WF_vars(LoopTest) /\ WF_vars(ProcessEvent) /\ WF_vars(DrainDone)
  /\ WF_vars(CheckTrigger) /\ WF_vars(TriggerPerformOptimization) /\ WF_vars(UpdateMetrics)
  /\ WF_vars(LiveSleep) /\ WF_vars(LiveBackoff)

SpecLive == Init /\ [][NextLive]_vars /\ WorkerFairness

\* ---------------------------------------------------- SpecCallbacks
\* the controller with completion callbacks being registered while it runs
CallbackRegister ==
  \E raises \in BOOLEAN :
    /\ Len(optimization_callbacks) < MaxCallbacks
    /\ add_optimization_callback(raises)

NextCallbacks ==
  \/ CallbackRegister \/ LiveAddEvent \/ Start \/ Stop \/ TriggerSetFleet
  \/ LoopTest \/ ProcessEvent \/ DrainDone \/ CheckTrigger \/ TriggerPerformOptimization
  \/ UpdateMetrics \/ LiveSleep \/ LiveBackoff

SpecCallbacks == Init /\ [][NextCallbacks]_vars

\* -------------------------------------------------------- SpecFleet
\* the controller with the registries as the database may hold them, drivers
\* going off duty, a completion callback and a fairly scheduled worker
FleetEvents ==
  {GoodsIn(CtlProduct(1), "Receiving"),
   DriverStatus(1, "off_duty"), DriverStatus(2, "off_duty")}

\* ui/app.py 86-89: the registries are replaced by what list_vehicles and
\* list_drivers return, either of which may be empty
FleetLoad ==
  /\ vehicles = <<>>
  /\ drivers = <<>>
  /\ \E vs \in {<<>>, TriggerVehicles} : \E ds \in {<<>>, CtlDrivers} :
       /\ vs # <<>> \/ ds # <<>>
       /\ set_fleet(vs, ds)

NextFleet ==
  \/ \E event \in FleetEvents :
       /\ Len(event_queue) < MaxQueue
       /\ n_events < MaxFleetEvents
       /\ add_event(event)
  \/ \E raises \in BOOLEAN :
       /\ Len(optimization_callbacks) < MaxFleetCallbacks
       /\ add_optimization_callback(raises)
  \/ Start \/ FleetLoad
  \/ LoopTest \/ ProcessEvent \/ DrainDone \/ CheckTrigger \/ TriggerPerformOptimization
  \/ UpdateMetrics \/ LiveSleep \/ LiveBackoff

SpecFleet == Init /\ [][NextFleet]_vars /\ WorkerFairness

\* ------------------------------------------------------ SpecPending
\* SpecLive with a caller that may call reset_state, as the upload handler
\* does (ui/app.py 81)
NextPending == NextLive \/ ResetState

SpecPending == Init /\ [][NextPending]_vars /\ WorkerFairness

\* -------------------------------------------------------- SpecDrain
\* the controller fed a goods_in event the handler cannot read among events
\* it can; no caller stops it
DrainEvents ==
  {GoodsIn(CtlProduct(1), "Receiving"), GoodsIn(NoProduct, "Receiving"),
   GoodsOut(1, "Customer A")}

NextDrain ==
  \/ \E event \in DrainEvents : n_events < MaxDrainEvents /\ add_event(event)
  \/ Start
  \/ LoopTest \/ ProcessEvent \/ DrainDone \/ CheckTrigger \/ TriggerPerformOptimization
  \/ UpdateMetrics \/ LiveSleep \/ LiveBackoff

SpecDrain == Init /\ [][NextDrain]_vars /\ WorkerFairness

\* ------------------------------------------------------- SpecLookup
\* the controller fed events that name a product, a vehicle or a driver it
\* does not hold
LookupEvents ==
  {GoodsIn(CtlProduct(1), "Receiving"),
   GoodsOut(2, "Customer A"), LocationChange(2, "ZoneA"), PriorityChange(2, "High"),
   VehicleStatus(3, "maintenance"), DriverStatus(3, "off_duty")}

NextLookup ==
  \/ \E event \in LookupEvents :
       /\ Len(event_queue) < MaxQueue
       /\ n_events < MaxLookupEvents
       /\ add_event(event)
  \/ Start \/ TriggerSetFleet
  \/ LoopTest \/ ProcessEvent \/ DrainDone \/ CheckTrigger \/ TriggerPerformOptimization
  \/ UpdateMetrics \/ LiveSleep \/ LiveBackoff

SpecLookup == Init /\ [][NextLookup]_vars

\* ======================================================================
\* DispatchPlanner: the cost lines of a route and the priority score
\* ======================================================================

\* FUEL_PRICE_PER_LITER
FUEL_PRICE_PER_LITER == 95

\* the assumed average speed of line 226
AverageSpeed == 30

\* round(x, 2) of the float computed for the exact quotient m / d of a value
\* counted in thousandths: the nearest hundredth, in thousandths; when m / d
\* lies half way between two hundredths the binary float may fall on either
\* side, so both are possible
Round2Ratio(m, d) ==
  LET q == m \div (10 * d)
      r == m % (10 * d)
  IN IF r < 5 * d THEN {10 * q}
     ELSE IF r > 5 * d THEN {10 * (q + 1)}
     ELSE {10 * q, 10 * (q + 1)}

\* mutation of route_costs: the driver's hours are cut to whole hours
route_costs_WholeHours(km, vehicle, driver) ==
  LET d == AverageSpeed * vehicle.fuel_efficiency
      fuel == km * FUEL_PRICE_PER_LITER
      operating == km * vehicle.operating_cost_per_km
      driving == ((km \div Thousand) \div AverageSpeed) * Thousand * driver.hourly_rate
  IN [fuel_cost |-> <<fuel, vehicle.fuel_efficiency>>,
      operating_cost |-> <<operating, 1>>,
      driver_cost |-> <<driving, 1>>,
      total_cost |-> <<fuel * AverageSpeed + operating * d + driving * d, d>>]

\* lines 224-227: the three costs and their sum before rounding, each as an
\* exact quotient <<m, d>> in thousandths of a currency unit; km is
\* total_distance_km in thousandths of a km
route_costs(km, vehicle, driver) ==
  LET d == AverageSpeed * vehicle.fuel_efficiency
      fuel == km * FUEL_PRICE_PER_LITER
      operating == km * vehicle.operating_cost_per_km
      driving == km * driver.hourly_rate
  IN [fuel_cost |-> <<fuel, vehicle.fuel_efficiency>>,
      operating_cost |-> <<operating, 1>>,
      driver_cost |-> <<driving, AverageSpeed>>,
      total_cost |-> <<fuel * AverageSpeed + operating * d + driving * vehicle.fuel_efficiency,
                       d>>]

\* ------------------------------------------------------- SpecCalls
\* calls of the cost lines and of _calculate_priority_score on drawn arguments
CostArgs ==
  [total_distance_km : {100 * Thousand, 50 * Thousand, 12345, 1609},
   fuel_efficiency : {8, 10, 12},
   operating_cost_per_km : {3, 5},
   hourly_rate : {180, 250, 300}]

\* a product row: Priority None is a row without the key, Weight 0 likewise
ScoreArgs ==
  [Priority : {"High", "Medium", "Low", "Urgent", None},
   Fragile : BOOLEAN,
   Weight : {0, 150, HeavyWeight, HeavyWeight + 1, 250}]

\* lines 221-238: the costs of a route of args.total_distance_km, as reported
CostCall ==
  /\ \E args \in CostArgs :
       LET c == route_costs(args.total_distance_km,
                            [fuel_efficiency |-> args.fuel_efficiency,
                             operating_cost_per_km |-> args.operating_cost_per_km],
                            [hourly_rate |-> args.hourly_rate])
       IN \E fuel \in Round2Ratio(c.fuel_cost[1], c.fuel_cost[2]) :
          \E operating \in Round2Ratio(c.operating_cost[1], c.operating_cost[2]) :
          \E driving \in Round2Ratio(c.driver_cost[1], c.driver_cost[2]) :
          \E total \in Round2Ratio(c.total_cost[1], c.total_cost[2]) :
            call' = [fn |-> "route_costs", args |-> args,
                     result |-> [fuel_cost |-> fuel, operating_cost |-> operating,
                                 driver_cost |-> driving, total_cost |-> total]]
  /\ UNCHANGED <<cbVars, thrVars, snapshot, optVars, logged_movement, dispatch_routes,
                 fleetVars, planVars, routeVars, ctlVars>>

\* line 72: the score of one product row, in half points
ScoreCall ==
  /\ \E product \in ScoreArgs :
       call' = [fn |-> "calculate_priority_score", args |-> product,
                result |-> calculate_priority_score(product)]
  /\ UNCHANGED <<cbVars, thrVars, snapshot, optVars, logged_movement, dispatch_routes,
                 fleetVars, planVars, routeVars, ctlVars>>

NextCalls == CostCall \/ ScoreCall

SpecCalls == Init /\ [][NextCalls]_vars

\* ======================================================================
\* DynamicOptimizer: start, stop and the worker threads, statement by statement
\* ======================================================================
\* A caller stands at "idle" or at the line of start_dynamic_optimization /
\* stop_dynamic_optimization / the upload handler it is about to run.  A
\* worker thread stands at "loop" (the test of line 103), "tick" (the body of
\* the loop, lines 104-113: one cycle), "sleep" (line 116 or 120) or "exited".

thrRest == <<cbVars, snapshot, optVars, logged_movement, call, dispatch_routes, fleetVars, planVars, routeVars, ctlRest>>

GoTo(c, at) == callers' = [callers EXCEPT ![c] = [at |-> at, target |-> 0]]

\* a caller enters start_dynamic_optimization
StartCall(c) ==
  /\ callers[c].at = "idle"
  /\ GoTo(c, "start_85")
  /\ UNCHANGED <<is_running, threads, optimization_thread, thrRest>>

\* mutation of StartCheck: the test of the flag is lost
StartCheck_Always(c) ==
  /\ callers[c].at = "start_85"
  /\ GoTo(c, "start_88")
  /\ UNCHANGED <<is_running, threads, optimization_thread, thrRest>>

\* lines 85-86: if self.is_running: return
StartCheck(c) ==
  /\ callers[c].at = "start_85"
  /\ GoTo(c, IF is_running THEN "idle" ELSE "start_88")
  /\ UNCHANGED <<is_running, threads, optimization_thread, thrRest>>

\* line 88: self.is_running = True
StartSet(c) ==
  /\ callers[c].at = "start_88"
  /\ is_running' = TRUE
  /\ GoTo(c, "start_89")
  /\ UNCHANGED <<threads, optimization_thread, thrRest>>

\* lines 89-92: the Thread object is created, stored and started; start returns
StartSpawn(c) ==
  /\ callers[c].at = "start_89"
  /\ Len(threads) < MaxThreads
  /\ threads' = Append(threads, "loop")
  /\ optimization_thread' = Len(threads) + 1
  /\ GoTo(c, "idle")
  /\ UNCHANGED <<is_running, thrRest>>

\* a caller enters stop_dynamic_optimization
StopCall(c) ==
  /\ callers[c].at = "idle"
  /\ GoTo(c, "stop_96")
  /\ UNCHANGED <<is_running, threads, optimization_thread, thrRest>>

\* line 96: self.is_running = False
StopClear(c) ==
  /\ callers[c].at = "stop_96"
  /\ is_running' = FALSE
  /\ GoTo(c, "stop_97")
  /\ UNCHANGED <<threads, optimization_thread, thrRest>>

\* mutation of StopJoin: stop returns without joining
StopJoin_NoWait(c) ==
  /\ callers[c].at = "stop_97"
  /\ GoTo(c, "idle")
  /\ UNCHANGED <<is_running, threads, optimization_thread, thrRest>>

\* lines 97-98: if self.optimization_thread: the join begins on that thread
StopJoin(c) ==
  /\ callers[c].at = "stop_97"
  /\ IF optimization_thread = 0
     THEN GoTo(c, "idle")
     ELSE callers' = [callers EXCEPT ![c] = [at |-> "stop_98", target |-> optimization_thread]]
  /\ UNCHANGED <<is_running, threads, optimization_thread, thrRest>>

\* line 98: join returns once the joined thread has ended; stop returns
StopJoined(c) ==
  /\ callers[c].at = "stop_98"
  /\ threads[callers[c].target] = "exited"
  /\ GoTo(c, "idle")
  /\ UNCHANGED <<is_running, threads, optimization_thread, thrRest>>

\* ui/app.py 99-100: the upload handler runs _process_events and
\* _perform_optimization itself, on the thread of the caller
UploadCall(c) ==
  /\ callers[c].at = "idle"
  /\ GoTo(c, "upload_99")
  /\ UNCHANGED <<is_running, threads, optimization_thread, thrRest>>

\* the cycle run by the upload handler returns
UploadReturn(c) ==
  /\ callers[c].at = "upload_99"
  /\ GoTo(c, "idle")
  /\ UNCHANGED <<is_running, threads, optimization_thread, thrRest>>

\* line 103: while self.is_running
ThreadTest(i) ==
  /\ threads[i] = "loop"
  /\ threads' = [threads EXCEPT ![i] = IF is_running THEN "tick" ELSE "exited"]
  /\ UNCHANGED <<is_running, callers, optimization_thread, thrRest>>

\* lines 104-113 or 118-119: the cycle of this tick ends, whether it raised or not
ThreadTick(i) ==
  /\ threads[i] = "tick"
  /\ threads' = [threads EXCEPT ![i] = "sleep"]
  /\ UNCHANGED <<is_running, callers, optimization_thread, thrRest>>

\* line 116 or 120: time.sleep returns
ThreadWake(i) ==
  /\ threads[i] = "sleep"
  /\ threads' = [threads EXCEPT ![i] = "loop"]
  /\ UNCHANGED <<is_running, callers, optimization_thread, thrRest>>

\* ------------------------------------------------------ SpecThreads
\* any number of callers inside start, stop and the upload handler at once
Callers == 1..NumCallers
ThreadIds == 1..Len(threads)

CallerStep(c) ==
  \/ StartCall(c) \/ StartCheck(c) \/ StartSet(c) \/ StartSpawn(c)
  \/ StopCall(c) \/ StopClear(c) \/ StopJoin(c) \/ StopJoined(c)
  \/ UploadCall(c) \/ UploadReturn(c)

ThreadStep(i) == ThreadTest(i) \/ ThreadTick(i) \/ ThreadWake(i)

NextThreads ==
  \/ \E c \in Callers : CallerStep(c)
  \/ \E i \in ThreadIds : ThreadStep(i)

SpecThreads == Init /\ [][NextThreads]_vars

\* ------------------------------------------------------ SpecControl
\* one caller, whose calls of start, stop and the upload handler follow one another
NextControl ==
  \/ CallerStep(1)
  \/ \E i \in ThreadIds : ThreadStep(i)

SpecControl == Init /\ [][NextControl]_vars

\* ======================================================================
\* Properties of the capacity assigner (SpecAssign)
\* ======================================================================
RECURSIVE SumWeight(_)
SumWeight(seq) == IF seq = <<>> THEN 0 ELSE Head(seq).Weight + SumWeight(Tail(seq))

RECURSIVE SumVolume(_)
SumVolume(seq) ==
  IF seq = <<>> THEN 0
  ELSE Head(seq).Length * Head(seq).Width * Head(seq).Height + SumVolume(Tail(seq))

IsNormalItem(product) == product.Product \notin fallback_items
NormalItems(id) == SelectSeq(vehicle_assignments[id], IsNormalItem)
AssignStarted == a_pc \in {"loop", "done"}

\* places (vehicle id, position) where the product with this id sits in the result
PlacesOf(pid) ==
  {<<id, k>> \in VehicleIds(vehicles) \X (1..MaxItems + 1) :
     /\ k <= Len(vehicle_assignments[id])
     /\ vehicle_assignments[id][k].Product = pid}

\* the vehicles that pass the fit check for the product the loop takes next,
\* written from the running totals
FittingNow ==
  {i \in 1..Len(vehicles) :
     /\ vehicles[i].available = TRUE
     /\ vehicle_capacities[vehicles[i].id].weight + a_products[a_idx + 1].Weight
          <= vehicles[i].capacity_weight
     /\ vehicle_capacities[vehicles[i].id].volume
          + a_products[a_idx + 1].Length * a_products[a_idx + 1].Width
            * a_products[a_idx + 1].Height
          <= vehicles[i].capacity_volume}

\* the next product was appended to the vehicle at registry position i, nothing else moved
PlacedOn(i) ==
  /\ vehicle_assignments'[vehicles[i].id]
       = Append(vehicle_assignments[vehicles[i].id], a_products[a_idx + 1])
  /\ \A j \in 1..Len(vehicles) :
       j # i => vehicle_assignments'[vehicles[j].id] = vehicle_assignments[vehicles[j].id]

LoopIteration == a_pc = "loop" /\ a_idx' = a_idx + 1

\* C1: in every state of a run, for every vehicle the weights and the volumes of
\* the items placed on it by the normal first-fit path sum to at most
\* capacity_weight and capacity_volume; while the fallback path has not been
\* taken, the whole load of every vehicle is within its capacity.
C1_NormalPathWithinCapacity ==
  AssignStarted =>
    \A i \in 1..Len(vehicles) :
      LET v == vehicles[i] IN
      /\ SumWeight(NormalItems(v.id)) <= v.capacity_weight
      /\ SumVolume(NormalItems(v.id)) <= v.capacity_volume
      /\ fallback_items = {} =>
           /\ SumWeight(vehicle_assignments[v.id]) <= v.capacity_weight
           /\ SumVolume(vehicle_assignments[v.id]) <= v.capacity_volume

\* a finished run in which one vehicle carries both a normally placed item and a
\* fallback item, and is overloaded as a whole
C1_Witness ==
  /\ a_pc = "done"
  /\ \E i \in 1..Len(vehicles) :
       /\ NormalItems(vehicles[i].id) # <<>>
       /\ Len(NormalItems(vehicles[i].id)) < Len(vehicle_assignments[vehicles[i].id])
       /\ SumWeight(vehicle_assignments[vehicles[i].id]) > vehicles[i].capacity_weight

\* C2: every product consumed so far sits at exactly one place of the result and
\* no product not yet consumed sits anywhere; at return every input product is
\* in exactly one vehicle's list.
C2_EveryItemExactlyOnce ==
  AssignStarted =>
    /\ \A n \in 1..Len(a_products) :
         Cardinality(PlacesOf(a_products[n].Product)) = IF n <= a_idx THEN 1 ELSE 0
    /\ a_pc = "done" => a_idx = Len(a_products)

\* a finished run with at least two products and no available vehicle at all
C2_Witness ==
  /\ a_pc = "done"
  /\ Len(a_products) >= 2
  /\ \A i \in 1..Len(vehicles) : ~vehicles[i].available

\* C3: a run that placed an item through the fallback path has surfaced it
\* (a warning or metric is part of the outcome).
C3_FallbackFlagged ==
  (a_pc = "done" /\ fallback_items # {}) => warnings # <<>>

\* C4: each loop iteration takes the next product in input order and, when some
\* vehicle passes the fit check, appends it to the first such vehicle in
\* registration order and to no other, adding it to that vehicle's totals.
C4_FirstFitInOrder ==
  [][LoopIteration /\ FittingNow # {} =>
       LET m == CHOOSE i \in FittingNow : \A j \in FittingNow : i <= j IN
       /\ PlacedOn(m)
       /\ vehicle_capacities'[vehicles[m].id].weight
            = vehicle_capacities[vehicles[m].id].weight + a_products[a_idx + 1].Weight
       /\ fallback_items' = fallback_items]_vars

\* a finished run where a normally placed item sits on the second vehicle although
\* the first one is available (it was full), and the first one carries items too
C4_Witness ==
  /\ a_pc = "done"
  /\ Len(vehicles) >= 2
  /\ vehicles[1].available
  /\ vehicle_assignments[vehicles[1].id] # <<>>
  /\ NormalItems(vehicles[2].id) # <<>>

\* C5: when no vehicle passes the fit check, the product goes to the first
\* registered vehicle among those of largest capacity_weight, whatever its
\* available flag and load, and the running totals are left alone.
C5_FallbackToLargest ==
  [][LoopIteration /\ FittingNow = {} =>
       LET big == {i \in 1..Len(vehicles) :
                     \A j \in 1..Len(vehicles) :
                       vehicles[j].capacity_weight <= vehicles[i].capacity_weight}
           b == CHOOSE i \in big : \A j \in big : i <= j
       IN /\ PlacedOn(b)
          /\ a_products[a_idx + 1].Product \in fallback_items']_vars

\* a finished run where two vehicles tie on capacity_weight, the first one is
\* unavailable and still received a fallback item
C5_Witness ==
  /\ a_pc = "done"
  /\ Len(vehicles) >= 2
  /\ vehicles[1].capacity_weight = vehicles[2].capacity_weight
  /\ ~vehicles[1].available
  /\ Len(NormalItems(vehicles[1].id)) < Len(vehicle_assignments[vehicles[1].id])

\* ======================================================================
\* Properties of the route builder (SpecRoute)
\* ======================================================================
RouteBuilt == r_pc = "done" /\ r_products # <<>>

\* the stop sequence of the returned route
Stops == r_result.route

RECURSIVE SumHops(_)
SumHops(seq) ==
  IF seq = <<>> THEN 0 ELSE Head(seq).distance_from_previous + SumHops(Tail(seq))

\* where the vehicle stands before stop k
Before(k) == IF k = 1 THEN <<0, 0>> ELSE Stops[k - 1].location

\* every assigned product is a stop exactly once and each hop is measured from
\* the previous stop (the depot for the first)
EachItemOneStop ==
  /\ Len(Stops) = Len(r_products)
  /\ r_result.products_delivered = Len(r_products)
  /\ \A i \in 1..Len(r_products) :
       Cardinality({k \in 1..Len(Stops) : Stops[k].product = r_products[i]}) = 1
  /\ \A k \in 1..Len(Stops) :
       /\ Stops[k].location = Stops[k].product.delivery_location
       /\ Stops[k].distance_from_previous = calculate_distance(Before(k), Stops[k].location)

\* depot -> stop1 -> ... -> stopn -> depot
HopsAndReturn ==
  SumHops(Stops) + calculate_distance(Stops[Len(Stops)].location, <<0, 0>>)

\* C6 as stated: the route has every assigned item as a stop exactly once and
\* its total_distance equals the sum of the hop distances plus the return leg.
C6_TotalIsExactSum ==
  RouteBuilt => (EachItemOneStop /\ r_result.total_distance = HopsAndReturn)

\* C6 as amended: the route has every assigned item as a stop exactly once and
\* its total_distance is the sum of the hop distances plus the return leg,
\* rounded to two decimals.
C6_TotalIsRoundedSum ==
  RouteBuilt => (EachItemOneStop /\ r_result.total_distance = Round2(HopsAndReturn))

\* a built route of at least two stops whose exact length is not a whole number
\* of hundredths
C6_Witness ==
  /\ RouteBuilt
  /\ Len(Stops) >= 2
  /\ HopsAndReturn # Round2(HopsAndReturn)

\* ======================================================================
\* Properties of the controller (Spec, SpecTrigger)
\* ======================================================================

\* this step is the worker taking the event at the head of the queue
TakesHead == pc = "drain" /\ event_queue # <<>> /\ event_queue' = Tail(event_queue)

\* this step handles a goods_out event for the record of p, which stays in place
GoodsOutOn(p) ==
  /\ TakesHead
  /\ Head(event_queue).type = "goods_out"
  /\ Head(event_queue).product_id = p
  /\ p \in DOMAIN current_state
  /\ p \in DOMAIN current_state'

\* this step handles a goods_in event for product id p
GoodsInOn(p) ==
  /\ TakesHead
  /\ Head(event_queue).type = "goods_in"
  /\ Head(event_queue).product.Product = p
  /\ p \in DOMAIN current_state'

AllIds == 1..(NumProducts + 1)

\* C7: a goods_out event on an Available item makes it Dispatched with the
\* event's destination and the current time; a goods_out event on an item that is
\* already Dispatched leaves its record as it was.
C7_GoodsOutReplayNoOp ==
  [][\A p \in AllIds :
       GoodsOutOn(p) =>
         /\ current_state[p].status = "available" =>
              /\ current_state'[p].status = "dispatched"
              /\ current_state'[p].destination = Head(event_queue).destination
              /\ current_state'[p].dispatch_time = now
         /\ current_state[p].status = "dispatched" =>
              current_state'[p] = current_state[p]]_vars

\* C8: the status of a record changes only from available to dispatched and only
\* in the step that handles a goods_out event for it; an id whose record is
\* dispatched is available again only through the step that handles a goods_in
\* event for it, which writes a new record; records appear only as available.
C8_StatusOneWay ==
  [][\A p \in AllIds :
       /\ (p \in DOMAIN current_state /\ p \in DOMAIN current_state'
           /\ current_state'[p].status # current_state[p].status) =>
            \/ /\ current_state[p].status = "available"
               /\ current_state'[p].status = "dispatched"
               /\ GoodsOutOn(p)
            \/ /\ current_state[p].status = "dispatched"
               /\ current_state'[p].status = "available"
               /\ GoodsInOn(p)
               /\ current_state'[p]
                    = NewRecord(Head(event_queue).product, Head(event_queue).location)
       /\ (p \notin DOMAIN current_state /\ p \in DOMAIN current_state') =>
            (GoodsInOn(p) /\ current_state'[p].status = "available")]_vars

\* a record that an optimization cycle gave a vehicle and that a goods_out event
\* then dispatched, next to a record that came in afterwards
C8_Witness ==
  /\ cycle_outcome = "success"
  /\ \E p \in DOMAIN current_state :
       /\ current_state[p].status = "dispatched"
       /\ current_state[p].assigned_vehicle # 0
  /\ \E p \in DOMAIN current_state :
       /\ current_state[p].status = "available"
       /\ current_state[p].assigned_vehicle = 0

\* this step is an evaluation of the trigger by the loop
Evaluates == pc = "check" /\ pc' # "check"
Fires == pc = "check" /\ pc' = "optimize"

\* C9 as stated: the trigger never fires twice within the interval, and an
\* evaluation with no optimization recorded fires whatever the item count.
C9_NeverTwiceWithinInterval ==
  [][/\ (Evaluates /\ last_optimization = NoTime) => Fires
     /\ (Fires /\ last_fire # NoTime) => now - last_fire >= OptimizationInterval]_vars

\* C9 as amended: after a firing whose cycle completed successfully the trigger
\* does not fire again within the interval, and an evaluation made while no
\* optimization has completed successfully fires whatever the item count.
C9_NotWithinIntervalOfSuccess ==
  [][/\ (Evaluates /\ last_optimization = NoTime) => Fires
     /\ (Fires /\ last_fire # NoTime /\ cycle_outcome = "success") =>
          now - last_fire >= OptimizationInterval]_vars

\* the trigger has fired for the second time after a cycle that succeeded, with
\* events having arrived since
C9_Witness ==
  /\ pc = "optimize"
  /\ cycle_outcome = "success"
  /\ last_optimization # NoTime
  /\ last_optimization < now
  /\ n_events >= MinAvailable

\* C10: with an optimization recorded, an evaluation of the trigger fires exactly
\* when at least the interval has passed since it and at least 5 records are
\* available.
C10_TriggerIffIntervalAndCount ==
  [][(Evaluates /\ last_optimization # NoTime) =>
       (Fires <=> /\ now - last_optimization >= OptimizationInterval
                  /\ Cardinality({p \in DOMAIN current_state :
                                    current_state[p].status = "available"}) >= 5)]_vars

\* the trigger has fired on exactly 5 available records, an optimization being recorded
C10_Witness ==
  /\ pc = "optimize"
  /\ last_optimization # NoTime
  /\ Cardinality({p \in DOMAIN current_state :
                    current_state[p].status = "available"}) = 5

\* C11: the last-optimization timestamp changes only at the end of an
\* optimization cycle that completed successfully, where it takes the value of
\* the clock; event handling, a failed cycle, a cycle that found no available
\* item, the metrics step, reset_state, start and stop leave it alone
C11_TimestampOnlyOnSuccess ==
  [][last_optimization' # last_optimization
       => /\ pc = "optimize"
          /\ pc' = "metrics"
          /\ cycle_outcome' = "success"
          /\ last_optimization' = now]_vars

\* a cycle succeeded, then reset_state and stop ran and the loop exited: the
\* timestamp of the success is still there
C11_Witness ==
  /\ last_optimization # NoTime
  /\ cycle_outcome = "success"
  /\ current_state = <<>>
  /\ ~is_running
  /\ pc = "exited"

\* ======================================================================
\* Properties of the completion callbacks (SpecCallbacks)
\* ======================================================================

\* the ids of the registered callbacks, in registration order
RegisteredIds == [i \in 1..Len(optimization_callbacks) |-> optimization_callbacks[i].id]

\* a _perform_optimization call returns
CycleEnds == pc = "optimize" /\ pc' # "optimize"

\* C12: a successful optimization cycle invokes every registered callback
\* exactly once, in registration order, whether or not some of them raise, and
\* still sets the last-optimization timestamp; a cycle that does not end in
\* success has invoked none, so no failure comes from a callback
C12_CallbacksAllOnceInOrder ==
  [][CycleEnds
       => IF cycle_outcome' = "success"
          THEN notified' = RegisteredIds /\ last_optimization' = now
          ELSE notified' = <<>> /\ UNCHANGED last_optimization]_vars

\* a cycle succeeded with a raising callback registered before another one,
\* and both were called
C12_Witness ==
  /\ cycle_outcome = "success"
  /\ last_optimization = now
  /\ Len(notified) >= 2
  /\ optimization_callbacks[1].raises
  /\ notified[2] = 2

\* ======================================================================
\* Properties of the event drain (Spec)
\* ======================================================================

\* what _handle_event makes of the oldest event of the queue
HeadApplied ==
  handle_event(current_state, state_keys, vehicles, drivers, Head(event_queue), now)

\* the step of reset_state as far as the queue and the state show it
ClearsAll == current_state' = <<>> /\ state_keys' = <<>> /\ event_queue' = <<>>

\* C13: events leave the queue in the order add_event put them in and are
\* applied in that order: a new event goes behind those already waiting, the
\* drain always takes the oldest one and applies it to the item records and the
\* registries, and _process_events returns only on an empty queue
C13_FifoDrain ==
  [][/\ Len(event_queue') > Len(event_queue)
          => /\ Len(event_queue') = Len(event_queue) + 1
             /\ SubSeq(event_queue', 1, Len(event_queue)) = event_queue
     /\ Len(event_queue') < Len(event_queue)
          => \/ ClearsAll
             \/ /\ pc = "drain"
                /\ event_queue' = Tail(event_queue)
                /\ current_state' = HeadApplied.state
                /\ state_keys' = HeadApplied.keys
                /\ vehicles' = HeadApplied.vehicles
                /\ drivers' = HeadApplied.drivers
     /\ pc = "drain" /\ pc' = "check" => event_queue = <<>> /\ event_queue' = <<>>]_vars

\* goods_in of product 1 and then its goods_out were enqueued and drained: the
\* record exists and is dispatched, which the reverse order would not give
C13_Witness ==
  /\ pc = "check"
  /\ event_queue = <<>>
  /\ n_events = 2
  /\ 1 \in DOMAIN current_state
  /\ current_state[1].status = "dispatched"

\* ======================================================================
\* Properties of the background loop (SpecLive)
\* ======================================================================

\* the worker is inside the body of the while loop
InTick == pc \in {"drain", "check", "optimize", "metrics", "sleep", "backoff"}

\* the sleep that ends the tick still fits before the end of the clock
ClockLeft == now + ErrorSleep <= LiveMaxTime

\* C14: no error ends the background loop.  Whatever was raised while
\* draining, optimizing or updating the metrics, the worker comes back to the
\* test of the while loop; from there it begins a new tick when the running
\* flag is set and exits when it is cleared, and it exits nowhere else
C14_LoopSurvivesErrors ==
  /\ [][pc # pc' /\ pc' = "exited" => pc = "loop" /\ ~is_running]_vars
  /\ [][pc = "loop" /\ pc' # "loop" /\ is_running => pc' = "drain"]_vars
  /\ (InTick /\ ClockLeft) ~> (pc = "loop")

\* the worker is back at the test of the loop after a single tick, in which the
\* trigger fired, the cycle failed and the except branch of the loop slept, and
\* the controller is still running
C14_Witness ==
  /\ pc = "loop"
  /\ is_running
  /\ now = ErrorSleep
  /\ last_fire = 0
  /\ cycle_outcome = "failed"

\* ======================================================================
\* Properties of start and stop (SpecThreads, SpecControl)
\* ======================================================================

\* caller c runs the statement it stands at
Moves(c) == callers'[c] # callers[c]

\* the worker threads whose loop has not ended
LiveThreads == {i \in ThreadIds : threads[i] # "exited"}

\* C15: a start call that finds the controller stopped sets the running flag
\* and starts exactly one worker loop before it returns; a start call that
\* finds it running returns at once, starts no loop and changes nothing; no
\* other statement ever starts a loop
C15_StartOnceOrNothing ==
  [][/\ \A c \in Callers :
          /\ callers[c].at = "start_85" /\ Moves(c)
               => /\ callers'[c].at = IF is_running THEN "idle" ELSE "start_88"
                  /\ UNCHANGED <<is_running, threads, optimization_thread>>
          /\ callers[c].at = "start_88" /\ Moves(c)
               => /\ callers'[c].at = "start_89"
                  /\ is_running'
                  /\ UNCHANGED <<threads, optimization_thread>>
          /\ callers[c].at = "start_89" /\ Moves(c)
               => /\ callers'[c].at = "idle"
                  /\ threads' = Append(threads, "loop")
     /\ Len(threads') # Len(threads)
          => \E c \in Callers : callers[c].at = "start_89" /\ Moves(c)]_vars

\* a start call on the stopped controller has returned, the controller runs one
\* loop, and a later start call has found it running and is back at idle too
C15_Witness ==
  /\ is_running
  /\ Len(threads) = 1
  /\ threads[1] = "tick"
  /\ \A c \in Callers : callers[c].at = "idle"

\* the one caller of SpecControl returns from stop_dynamic_optimization
StopReturns == callers[1].at \in {"stop_97", "stop_98"} /\ callers'[1].at = "idle"

\* the one caller of SpecControl is inside stop_dynamic_optimization
InStop == callers[1].at \in {"stop_96", "stop_97", "stop_98"}

Stopped == ~is_running /\ LiveThreads = {}

\* C16: stop clears the running flag and returns only when the worker loop has
\* ended.  The worker ends nowhere but at the test of its loop, so the tick in
\* progress runs to its end; once stop has returned no worker is left to begin
\* a tick until the next start; and a stop call on a controller that is
\* stopped or was never started changes nothing
C16_StopWaitsForLoop ==
  /\ [][StopReturns => Stopped]_vars
  /\ [][\A i \in ThreadIds :
          /\ threads[i] = "tick" /\ threads'[i] # "tick" => threads'[i] = "sleep"
          /\ threads[i] = "sleep" /\ threads'[i] # "sleep" => threads'[i] = "loop"
          /\ threads[i] # "exited" /\ threads'[i] = "exited"
               => threads[i] = "loop" /\ ~is_running]_vars
  /\ [](~is_running /\ callers[1].at \notin {"stop_97", "stop_98"} => LiveThreads = {})
  /\ [][InStop /\ Stopped /\ Moves(1)
          => UNCHANGED <<is_running, threads, optimization_thread>>]_vars

\* stop has returned after a loop was running: the flag is cleared and the
\* thread has ended
C16_Witness ==
  /\ callers[1].at = "idle"
  /\ ~is_running
  /\ Len(threads) = 1
  /\ threads[1] = "exited"

\* the cycles in progress: worker threads in the body of their loop and
\* callers inside the upload handler's own cycle
CyclesInProgress ==
  Cardinality({i \in ThreadIds : threads[i] = "tick"})
    + Cardinality({c \in Callers : callers[c].at = "upload_99"})

\* C17: whatever the interleaving of the calls of concurrent callers, at most
\* one worker loop is active at any time and no two optimization cycles
\* overlap
C17_OneWorkerNoOverlap ==
  /\ Cardinality(LiveThreads) <= 1
  /\ CyclesInProgress <= 1

\* ======================================================================
\* Properties of the ownership of the item records and registries (Spec)
\* ======================================================================

\* the worker handles the oldest event of the queue
WorkerHandlesEvent ==
  /\ pc = "drain"
  /\ event_queue # <<>>
  /\ event_queue' = Tail(event_queue)
  /\ current_state' = HeadApplied.state
  /\ vehicles' = HeadApplied.vehicles
  /\ drivers' = HeadApplied.drivers

\* the worker ends an optimization cycle, merging its result if there is one
WorkerMerges == pc = "optimize" /\ pc' # "optimize" /\ UNCHANGED <<vehicles, drivers>>

\* C18: the item records (current_state) and the vehicle and driver
\* registries change only in steps of the worker, while it handles an event or
\* merges an optimization result; a caller changes them only by way of the
\* events it enqueues
C18_WorkerSoleMutator ==
  [][<<current_state, vehicles, drivers>>' # <<current_state, vehicles, drivers>>
       => WorkerHandlesEvent \/ WorkerMerges]_vars

\* ======================================================================
\* Properties of get_current_state (SpecSnapshot)
\* ======================================================================

\* C19: the dictionary returned by get_current_state is a copy with no tie to
\* the controller: once it is returned, no step changes both it and the item
\* records of the controller, so an edit of the returned structure leaves
\* current_state alone and a later event or merge leaves the returned
\* structure alone
C19_SnapshotIsolated ==
  [][snapshot.taken /\ snapshot'.view # snapshot.view => current_state' = current_state]_vars

\* ======================================================================
\* Properties of optimize_routes (SpecPlan)
\* ======================================================================

\* C20: with an empty vehicle registry, or an empty driver registry,
\* optimize_routes raises the no-vehicles / no-drivers error, the vehicle
\* registry being looked at first, before any product is assigned to a vehicle
\* and before any route is built; it never gets past the two tests
C20_FailsFastOnEmptyRegistry ==
  (\/ o_pc \notin {"idle", "check_vehicles"} /\ vehicles = <<>>
   \/ o_pc \notin {"idle", "check_vehicles", "check_drivers"} /\ drivers = <<>>)
  => /\ o_pc = "raised"
     /\ o_error = IF vehicles = <<>> THEN "no_vehicles" ELSE "no_drivers"
     /\ o_assign_calls = 0
     /\ o_route_calls = 0
     /\ optimized_routes = <<>>

\* the call was made with both registries empty and has raised the no-vehicles
\* error
C20_Witness ==
  /\ o_pc = "raised"
  /\ vehicles = <<>>
  /\ drivers = <<>>
  /\ o_error = "no_vehicles"

\* the call was made with vehicles but no driver and has raised the no-drivers
\* error
C20_WitnessDrivers ==
  /\ o_pc = "raised"
  /\ vehicles # <<>>
  /\ drivers = <<>>
  /\ o_error = "no_drivers"

\* ======================================================================
\* Properties of a cycle on an empty or unavailable fleet (SpecFleet)
\* ======================================================================

\* the cycle about to run has items to plan and finds a registry empty
EmptyRegistryCycle ==
  /\ pc = "optimize"
  /\ AvailableIds(current_state) # {}
  /\ vehicles = <<>> \/ drivers = <<>>

\* C21: an optimization attempt that finds the vehicle or the driver registry
\* empty fails alone: it ends as failed, it invokes no callback, it leaves the
\* item records, the registries, the queue, the running flag and the
\* last-optimization timestamp as they were, and the loop goes on: to the
\* metrics step once the attempt is recorded as failed (to the back-off of the
\* loop if writing that record raised), and from there to the next test of the
\* loop
C21_EmptyRegistryFailsOneAttempt ==
  /\ [][EmptyRegistryCycle /\ CycleEnds
          => /\ cycle_outcome' \in {"failed", "raised"}
             /\ cycle_outcome' = "failed" => pc' = "metrics"
             /\ cycle_outcome' = "raised" => pc' = "backoff"
             /\ notified' = <<>>
             /\ UNCHANGED <<current_state, state_keys, vehicles, drivers, event_queue,
                            is_running, last_optimization>>]_vars
  /\ (cycle_outcome \in {"failed", "raised"} /\ pc \in {"metrics", "backoff"} /\ ClockLeft)
       ~> (pc = "loop")

\* with vehicles but no driver loaded and a callback registered, the cycle of
\* the first tick failed on an available item, the metrics step and the sleep
\* followed, and the worker is at the test of the loop for the second tick
C21_Witness ==
  /\ pc = "loop"
  /\ is_running
  /\ now = TickSleep
  /\ cycle_outcome = "failed"
  /\ vehicles # <<>>
  /\ drivers = <<>>
  /\ optimization_callbacks # <<>>
  /\ AvailableIds(current_state) # {}
  /\ notified = <<>>

\* ======================================================================
\* Properties of events that name an unknown id (SpecLookup)
\* ======================================================================

\* the event names a product that has no record, or a vehicle or a driver
\* that is not in its registry
UnknownId(event) ==
  \/ /\ event.type \in {"goods_out", "location_change", "priority_change"}
     /\ event.product_id \notin DOMAIN current_state
  \/ /\ event.type = "vehicle_status"
     /\ \A i \in 1..Len(vehicles) : vehicles[i].id # event.vehicle_id
  \/ /\ event.type = "driver_status"
     /\ \A i \in 1..Len(drivers) : drivers[i].id # event.driver_id

\* C22: the step that handles a goods_out, location_change or priority_change
\* event for a product without a record, or a vehicle_status or driver_status
\* event for an id that is not in the registry, leaves the item records and
\* both registries as they were and raises nothing in the handler: the event
\* is handed to the movement log, which writes its row, and the drain goes on;
\* the tick is cut short only if the write to the log itself raises
C22_UnknownIdIsLoggedNoOp ==
  [][TakesHead /\ UnknownId(Head(event_queue))
       => /\ UNCHANGED <<current_state, state_keys, vehicles, drivers>>
          /\ logged_movement' \in {<<Head(event_queue), TRUE>>, <<Head(event_queue), FALSE>>}
          /\ pc' = IF logged_movement'[2] THEN "drain" ELSE "backoff"]_vars

\* a driver_status event for an unknown driver was handled and logged while the
\* controller held a record and a fleet; every driver is still available
C22_Witness ==
  /\ pc = "drain"
  /\ logged_movement = <<DriverStatus(3, "off_duty"), TRUE>>
  /\ 1 \in DOMAIN current_state
  /\ drivers # <<>>
  /\ \A i \in 1..Len(drivers) : drivers[i].available

\* ======================================================================
\* Properties of the cost lines and of the priority score (SpecCalls)
\* ======================================================================

\* the route of the example: 100 km, fuel efficiency 10, operating cost 5 per
\* km, a driver paid 300 per hour
ExampleRoute ==
  /\ call.fn = "route_costs"
  /\ call.args = [total_distance_km |-> 100 * Thousand, fuel_efficiency |-> 10,
                  operating_cost_per_km |-> 5, hourly_rate |-> 300]

TierValue(product) ==
  IF product.Priority = "High" THEN 3
  ELSE IF product.Priority = "Low" THEN 1
  ELSE 2

\* a call of _calculate_priority_score has returned in this step
ScoreReturns == call'.fn = "calculate_priority_score" /\ call' # call

\* C24: the priority score of an item is its tier value (High 3, Medium 2,
\* Low 1, and 2 for a missing or unknown tier) plus 1 if it is fragile plus
\* 0.5 if its weight is strictly greater than 200, counted here in half
\* points; (High, fragile, weight 250) scores 4.5; and computing the score
\* changes nothing: the product row and every field of the planner and of the
\* controller are as before
C24_PriorityScore ==
  /\ [](call.fn = "calculate_priority_score"
          => /\ call.result = 2 * TierValue(call.args)
                              + (IF call.args.Fragile THEN 2 ELSE 0)
                              + (IF call.args.Weight > 200 THEN 1 ELSE 0)
             /\ call.args = [Priority |-> "High", Fragile |-> TRUE, Weight |-> 250]
                  => call.result = 9)
  /\ [][ScoreReturns
          => /\ call'.args \in ScoreArgs
             /\ UNCHANGED <<fleetVars, planVars, routeVars, ctlVars, cbVars, thrVars,
                            snapshot, optVars, logged_movement>>]_vars

\* the score of a row without a tier, not fragile, of weight exactly 200: the
\* default tier and no half point
C24_Witness ==
  /\ call.fn = "calculate_priority_score"
  /\ call.args = [Priority |-> None, Fragile |-> FALSE, Weight |-> HeavyWeight]
  /\ call.result = 4

\* ======================================================================
\* Properties of the order of assignment (SpecPlan)
\* ======================================================================

\* the products of the date whose group was handed to the assigner last
LastGroup ==
  GroupOf(products_with_locations, GroupDates(products_with_locations)[o_assign_calls])

\* C25: the list optimize_routes hands to the capacity assigner for a date
\* holds exactly the products of that date, ordered by priority_score
\* descending and, among equal scores, by delivery_window_start descending
\* (the later window first); the assigner takes its argument front to back
C25_SortedBeforeAssignment ==
  o_assign_calls > 0 =>
    /\ Len(a_products) = Len(LastGroup)
    /\ \A i \in 1..Len(LastGroup) :
         Cardinality({k \in 1..Len(a_products) : a_products[k] = LastGroup[i]}) = 1
    /\ \A i \in 1..Len(a_products) : \A j \in (i + 1)..Len(a_products) :
         \/ a_products[i].priority_score > a_products[j].priority_score
         \/ /\ a_products[i].priority_score = a_products[j].priority_score
            /\ a_products[i].delivery_window_start >= a_products[j].delivery_window_start

\* two products of one date and one score, the second with the later window:
\* the assigner was handed the second one first
C25_Witness ==
  /\ o_pc = "done"
  /\ Len(a_products) = 2
  /\ a_products[1].Product = 2
  /\ a_products[1].priority_score = a_products[2].priority_score
  /\ a_products[1].delivery_window_start > a_products[2].delivery_window_start

\* ======================================================================
\* Properties of the nearest-neighbour order (SpecRoute)
\* ======================================================================

\* where the product stands in the list the route was asked to serve
InputPosition(product) == CHOOSE i \in 1..Len(r_products) : r_products[i] = product

\* C26: every stop the route builder appends is an unvisited product at
\* minimum distance from the current location, which is the warehouse for the
\* first stop and the previous stop afterwards; among equally close unvisited
\* products the one earliest in the input is taken, and it leaves unvisited
C26_NearestFirstMatch ==
  [][route' # route =>
       LET stop == route'[Len(route')]
           here == IF route = <<>> THEN Depot ELSE route[Len(route)].location
           Far(p) == calculate_distance(here, p.delivery_location)
       IN /\ route' = Append(route, stop)
          /\ current_location = here
          /\ \E k \in 1..Len(unvisited) : unvisited[k] = stop.product
          /\ stop.location = stop.product.delivery_location
          /\ stop.distance_from_previous = Far(stop.product)
          /\ \A k \in 1..Len(unvisited) :
               \/ Far(unvisited[k]) > Far(stop.product)
               \/ /\ Far(unvisited[k]) = Far(stop.product)
                  /\ InputPosition(unvisited[k]) >= InputPosition(stop.product)
          /\ Len(unvisited') = Len(unvisited) - 1
          /\ \A k \in 1..Len(unvisited') : unvisited'[k] # stop.product
          /\ current_location' = stop.location]_vars

\* a finished route of three stops: the first stop was chosen out of two
\* equally close products at different places, and the second stop is a later
\* input than the third
C26_Witness ==
  /\ r_pc = "done"
  /\ Len(route) = 3
  /\ route[1].product = r_products[1]
  /\ \E i \in 2..3 :
       /\ r_products[i].delivery_location # r_products[1].delivery_location
       /\ calculate_distance(Depot, r_products[i].delivery_location)
            = calculate_distance(Depot, r_products[1].delivery_location)
  /\ route[2].product = r_products[3]
  /\ route[3].product = r_products[2]

\* ======================================================================
\* Properties of the merge of the routes into current_state (Spec)
\* ======================================================================

\* the routes of the cycle that have a stop for the product
RoutesServing(product_id) ==
  {i \in 1..Len(dispatch_routes) :
     \E j \in 1..Len(dispatch_routes[i].route) :
        dispatch_routes[i].route[j].product.Product = product_id}

DriversOf(r) ==
  {d \in 1..Len(drivers) : drivers[d].id = r.driver_id /\ drivers[d].name = r.driver_name}

\* C28: every route of a cycle names a driver whose available flag is set
\* when the cycle builds it; a cycle that finds items to plan, vehicles and a
\* non-empty driver registry in which no driver is available ends as failed:
\* no record changes, no callback is invoked and the timestamp stays
C28_RoutesTakeAvailableDrivers ==
  [][(pc = "optimize" /\ pc' # pc) =>
       /\ \A i \in 1..Len(dispatch_routes') :
            \E d \in DriversOf(dispatch_routes'[i]) : drivers[d].available
       /\ (/\ AvailableIds(current_state) # {}
           /\ vehicles # <<>>
           /\ drivers # <<>>
           /\ \A d \in 1..Len(drivers) : ~drivers[d].available)
          => /\ cycle_outcome' \in {"failed", "raised"}
             /\ dispatch_routes' = <<>>
             /\ current_state' = current_state
             /\ notified' = <<>>
             /\ last_optimization' = last_optimization]_vars

\* a cycle has just failed with an item to plan, vehicles loaded, a callback
\* registered and both drivers of the registry off duty
C28_Witness ==
  /\ pc = "metrics"
  /\ cycle_outcome = "failed"
  /\ AvailableIds(current_state) # {}
  /\ vehicles # <<>>
  /\ Len(drivers) = 2
  /\ \A d \in 1..Len(drivers) : ~drivers[d].available
  /\ optimization_callbacks # <<>>
  /\ notified = <<>>
  /\ last_optimization = NoTime

\* ======================================================================
\* Properties of a drain that raises (SpecDrain)
\* ======================================================================

\* the step in which the handler or the movement log of an event raises
RaisedInDrain == pc = "drain" /\ pc' = "backoff"

\* C29: when the handler or the log of an event raises during a drain, the
\* event has left the queue and no trigger check, cycle or metrics step of
\* that tick follows: the worker sleeps the back-off and returns to the test
\* of the loop.  The event is not put back; the events behind it keep their
\* places, later ones join at the end, and the next drain takes them from the
\* head, leaving for the trigger check only with the queue empty
C29_RaiseSkipsTickKeepsQueue ==
  /\ [][RaisedInDrain =>
          /\ event_queue # <<>>
          /\ event_queue' = Tail(event_queue)
          /\ logged_movement' = <<Head(event_queue), FALSE>>
          /\ UNCHANGED <<last_fire, cycle_outcome, last_optimization, now>>]_vars
  /\ [][(pc = "backoff" /\ pc' # pc) =>
          /\ pc' = "loop"
          /\ now' = now + ErrorSleep
          /\ UNCHANGED <<event_queue, current_state, last_fire, cycle_outcome,
                         last_optimization>>]_vars
  /\ [][event_queue' # event_queue =>
          \/ /\ pc = "drain"
             /\ event_queue # <<>>
             /\ event_queue' = Tail(event_queue)
             /\ logged_movement'[1] = Head(event_queue)
          \/ /\ n_events' = n_events + 1
             /\ Len(event_queue') = Len(event_queue) + 1
             /\ SubSeq(event_queue', 1, Len(event_queue)) = event_queue
             /\ pc' = pc]_vars
  /\ [][(pc = "drain" /\ pc' = "check") => event_queue = <<>>]_vars
  /\ (pc = "backoff" /\ ClockLeft) ~> (pc = "loop" /\ logged_movement = <<>>)
  /\ (pc = "loop" /\ is_running /\ event_queue # <<>>) ~> (logged_movement # <<>>)

\* the handler has just raised on the goods_in event it cannot read: the
\* event is gone from the queue and the two events that were behind it, not
\* alike, are waiting in the order they were added
C29_Witness ==
  /\ pc = "backoff"
  /\ logged_movement = <<GoodsIn(NoProduct, "Receiving"), FALSE>>
  /\ event_queue = <<GoodsIn(CtlProduct(1), "Receiving"), GoodsOut(1, "Customer A")>>

\* ======================================================================
\* Properties of the events waiting in the queue (SpecPending)
\* ======================================================================

\* the events that have left the queue, while every one that left was taken
EventsTaken == n_events - Len(event_queue)

\* C30: add_event puts the event at the end of the queue in one step of the
\* caller and waits for nothing; an event leaves the queue only when the
\* worker takes it from the head and hands it to its handler; and while the
\* controller is running and the clock has room for the sleep that may come
\* first, the event at the head of the queue does leave it
C30_AcceptedEventsAreApplied ==
  /\ [][n_events' # n_events =>
          /\ n_events' = n_events + 1
          /\ Len(event_queue') = Len(event_queue) + 1
          /\ SubSeq(event_queue', 1, Len(event_queue)) = event_queue
          /\ UNCHANGED <<pc, is_running, now, current_state>>]_vars
  /\ [][Len(event_queue') < Len(event_queue) =>
          /\ pc = "drain"
          /\ event_queue' = Tail(event_queue)
          /\ logged_movement'[1] = Head(event_queue)
          /\ HandlerRaises(Head(event_queue))
             \/ current_state' = handle_event(current_state, state_keys, vehicles, drivers,
                                              Head(event_queue), now).state]_vars
  /\ \A k \in 0..MaxLiveEvents :
       (/\ is_running /\ pc \notin {"idle", "exited"} /\ ClockLeft
        /\ event_queue # <<>> /\ EventsTaken = k)
         ~> (EventsTaken > k \/ ~is_running)

====
